---- MODULE Spec2Model ----
(***************************************************************************)
(* A model of the aidale extensibility core:                               *)
(*   - aidale-core/src/plugin.rs            the plugin engine              *)
(*   - aidale-core/src/runtime/executor.rs  the builder and generate_text  *)
(*   - aidale-core/src/error.rs             AiError::is_retryable          *)
(*   - aidale-layer/src/retry.rs            the retry layer                *)
(*   - aidale-layer/src/logging.rs          the logging layer              *)
(*   - aidale-core/src/layer.rs             Layer and LayeredProvider      *)
(*   - aidale-core/src/strategy/json_output.rs  the JSON output strategies *)
(*                                                                         *)
(* Plugins and connectors are trait objects whose bodies are supplied by   *)
(* the caller; a plugin is modelled by the outcome each of its hooks       *)
(* gives, a connector by a nondeterministic outcome per call.              *)
(***************************************************************************)
EXTENDS Integers, Sequences, FiniteSets, TLC

VARIABLES
    builder,        \* RuntimeExecutorBuilder: [provider, plugins, json_strategy]
    executor,       \* RuntimeExecutor: [built, provider, plugin_engine, json_strategy]
    drv,            \* last direct call of a PluginEngine driver: [op, arg, out]
    pc,             \* position inside generate_text
    call,           \* locals of generate_text: model, params, ctx, resolved_model, ...
    batch,          \* the try_join_all of the running parallel hook batch
    log,            \* what generate_text has invoked so far, in order
    ret,            \* what generate_text returned
    assoc,          \* an input of the chain-composition experiment, and its outputs
    retry,          \* one outer call of RetryProvider::execute_with_retry
    calls,          \* the builder methods called so far, in order
    delay,          \* one evaluation of RetryLayer::calculate_delay
    stack,          \* one call of the composed provider through its layers
    strat,          \* one JsonOutputStrategy::apply on a request
    parked,         \* a second call on the same executor, while it is not the one running
    registry        \* a ToolRegistry, and what definitions() returned last

vars == <<builder, executor, drv, pc, call, batch, log, ret, assoc, retry,
          calls, delay, stack, strat, parked, registry>>

(***************************************************************************)
(* Bounds                                                                  *)
(***************************************************************************)
MaxPlugins == 3         \* plugins registered with one builder
MaxRetriesCfg == 3      \* largest max_retries a RetryLayer is configured with
MaxAttempt == 9         \* largest attempt number calculate_delay is asked about
MaxBuilderCalls == 3    \* builder methods called before finish()
MaxLayers == 2          \* layers attached to one connector
MaxLayerRetries == 2    \* largest max_retries of an attached RetryLayer
MaxMessages == 2        \* messages of a request a strategy is applied to

(***************************************************************************)
(* Result and Option values                                                *)
(***************************************************************************)
Ok(v) == [ok |-> TRUE, val |-> v]
Err(e) == [ok |-> FALSE, err |-> e]
None == [some |-> FALSE]
Some(v) == [some |-> TRUE, val |-> v]

(***************************************************************************)
(* error.rs: the fourteen kinds of AiError                                 *)
(***************************************************************************)
ErrorKinds ==
    {"Provider", "Network", "Serialization", "Authentication", "RateLimit",
     "InvalidRequest", "ModelNotFound", "Timeout", "Plugin", "Layer",
     "Configuration", "Stream", "Unsupported", "Other"}

\* AiError::is_retryable with RateLimit forgotten.
is_retryable_no_ratelimit(e) == e.kind \in {"Network", "Timeout"}

\* AiError::is_retryable: matches!(self, Network(_) | Timeout(_) | RateLimit(_))
is_retryable(e) ==
    CASE e.kind = "Network" -> TRUE
      [] e.kind = "Timeout" -> TRUE
      [] e.kind = "RateLimit" -> TRUE
      [] OTHER -> FALSE

\* AiError::plugin(plugin, message): the error hook `hook` of plugin p returns.
PluginError(p, hook) == [kind |-> "Plugin", who |-> p.name, msg |-> hook]

\* AiError::provider("No choices in response")
NoChoicesError == [kind |-> "Provider", who |-> 0, msg |-> "No choices in response"]

\* An error of kind k returned by the connector.
ConnectorError(k) == [kind |-> k, who |-> 0, msg |-> "connector"]

(***************************************************************************)
(* plugin.rs: PluginPhase and the Plugin trait                             *)
(***************************************************************************)
Phases == {"Pre", "Normal", "Post"}

\* The sort key of PluginEngine::new.
PhaseKey(ph) ==
    CASE ph = "Pre" -> 0
      [] ph = "Normal" -> 1
      [] ph = "Post" -> 2

\* The model ids a caller asks for.
Models == {"m0", "m1"}

\* The trait's default implementation of every method (phase Normal, Ok(None),
\* pass-through, Ok(())).
DefaultPlugin ==
    [phase |-> "Normal", rm |-> "None", lt |-> "None", tp |-> "id", tr |-> "id",
     rs |-> "Ok", re |-> "Ok", oe |-> "Ok", ts |-> "id"]

\* The implementations of the Plugin trait a caller registers: each field names
\* what the hook does (rm: resolve_model, lt: load_template, tp: transform_params,
\* tr: transform_result, rs: on_request_start, re: on_request_end, oe: on_error,
\* ts: transform_stream).
PluginKinds ==
    { DefaultPlugin,
      [DefaultPlugin EXCEPT !.phase = "Pre", !.rm = "m1", !.lt = "t1",
                            !.tp = "push", !.tr = "push", !.ts = "wrap"],
      [DefaultPlugin EXCEPT !.phase = "Post", !.rm = "m2", !.lt = "t2",
                            !.tp = "trunc", !.tr = "trunc", !.ts = "wrap"],
      [DefaultPlugin EXCEPT !.phase = "Post", !.rm = "m1", !.lt = "t1",
                            !.tp = "push", !.tr = "push", !.ts = "wrap"],
      [DefaultPlugin EXCEPT !.rm = "Err", !.lt = "Err"],
      [DefaultPlugin EXCEPT !.phase = "Pre", !.tp = "Err", !.oe = "Err"],
      [DefaultPlugin EXCEPT !.phase = "Post", !.tr = "Err"],
      [DefaultPlugin EXCEPT !.rs = "Err"],
      [DefaultPlugin EXCEPT !.phase = "Post", !.re = "Err", !.oe = "Err"] }

\* A registered plugin: an implementation, named by its registration number.
MkPlugin(k, n) ==
    [name |-> n, phase |-> k.phase, rm |-> k.rm, lt |-> k.lt, tp |-> k.tp,
     tr |-> k.tr, rs |-> k.rs, re |-> k.re, oe |-> k.oe, ts |-> k.ts]

\* Plugin::enforce
enforce(p) == p.phase

\* Plugin::resolve_model
Plugin_resolve_model(p, model_id) ==
    CASE p.rm = "Err" -> Err(PluginError(p, "resolve_model"))
      [] p.rm = "None" -> Ok(None)
      [] OTHER -> Ok(Some(p.rm))

\* Plugin::load_template
Plugin_load_template(p, template_name) ==
    CASE p.lt = "Err" -> Err(PluginError(p, "load_template"))
      [] p.lt = "None" -> Ok(None)
      [] OTHER -> Ok(Some(p.lt))

\* What a pure transform of kind t, written by plugin p, makes of a sequence.
Transform(t, p, s) ==
    CASE t = "push" -> Append(s, p.name)
      [] t = "trunc" -> IF s = <<>> THEN s ELSE <<Head(s)>>
      [] OTHER -> s

\* Plugin::transform_params
Plugin_transform_params(p, params) ==
    IF p.tp = "Err" THEN Err(PluginError(p, "transform_params"))
    ELSE Ok([params EXCEPT !.messages = Transform(p.tp, p, @)])

\* Plugin::transform_result
Plugin_transform_result(p, result) ==
    IF p.tr = "Err" THEN Err(PluginError(p, "transform_result"))
    ELSE Ok([result EXCEPT !.content = Transform(p.tr, p, @)])

\* Plugin::transform_stream: a stream is the list of wrappers around the base
\* stream, innermost first.
Plugin_transform_stream(p, stream) ==
    IF p.ts = "wrap" THEN Append(stream, p.name) ELSE stream

(***************************************************************************)
(* plugin.rs: PluginEngine                                                 *)
(***************************************************************************)
RECURSIVE InsertByKey(_, _)
\* One step of the stable sort: p goes after every element whose key is not
\* greater than its own.
InsertByKey(sorted, p) ==
    IF sorted = <<>> THEN <<p>>
    ELSE LET last == sorted[Len(sorted)]
             front == SubSeq(sorted, 1, Len(sorted) - 1)
         IN  IF PhaseKey(enforce(last)) <= PhaseKey(enforce(p))
             THEN Append(sorted, p)
             ELSE Append(InsertByKey(front, p), last)

RECURSIVE InsertByKeyUnstable(_, _)
\* The step of a sort that is not stable: p goes before the elements of its
\* own key.
InsertByKeyUnstable(sorted, p) ==
    IF sorted = <<>> THEN <<p>>
    ELSE LET last == sorted[Len(sorted)]
             front == SubSeq(sorted, 1, Len(sorted) - 1)
         IN  IF PhaseKey(enforce(last)) < PhaseKey(enforce(p))
             THEN Append(sorted, p)
             ELSE Append(InsertByKeyUnstable(front, p), last)

RECURSIVE sort_by_key_unstable(_)
\* A sort by phase key that is not stable.
sort_by_key_unstable(plugins) ==
    IF plugins = <<>> THEN <<>>
    ELSE InsertByKeyUnstable(
             sort_by_key_unstable(SubSeq(plugins, 1, Len(plugins) - 1)),
             plugins[Len(plugins)])

RECURSIVE sort_by_key(_)
\* slice::sort_by_key with the phase key: a stable sort.
sort_by_key(plugins) ==
    IF plugins = <<>> THEN <<>>
    ELSE InsertByKey(sort_by_key(SubSeq(plugins, 1, Len(plugins) - 1)),
                     plugins[Len(plugins)])

\* PluginEngine::new sorting with a sort that is not stable.
PluginEngine_new_unstable(plugins) == sort_by_key_unstable(plugins)

\* PluginEngine::new: plugins.sort_by_key(..); Self { plugins }
PluginEngine_new(plugins) == sort_by_key(plugins)

\* What a driver reports: its return value and the hook invocations it made,
\* in order, each with the plugin's name and the argument the hook received.
Visit(p, arg) == [plugin |-> p.name, arg |-> arg]
Ran(out, visited) == [out |-> out, visited |-> visited]

RECURSIVE resolve_model_loop(_, _, _)
\* The for loop of PluginEngine::resolve_model, from plugin i on.
resolve_model_loop(plugins, model_id, i) ==
    IF i > Len(plugins) THEN Ran(Ok(model_id), <<>>)
    ELSE LET r == Plugin_resolve_model(plugins[i], model_id)
             v == <<Visit(plugins[i], model_id)>>
         IN  IF ~r.ok THEN Ran(Err(r.err), v)
             ELSE IF r.val.some THEN Ran(Ok(r.val.val), v)
             ELSE LET rest == resolve_model_loop(plugins, model_id, i + 1)
                  IN  Ran(rest.out, v \o rest.visited)

RECURSIVE resolve_model_last_loop(_, _, _)
\* A resolve_model loop in which a later Some overrides an earlier one.
resolve_model_last_loop(plugins, model_id, i) ==
    IF i > Len(plugins) THEN Ran(Ok(model_id), <<>>)
    ELSE LET r == Plugin_resolve_model(plugins[i], model_id)
             v == <<Visit(plugins[i], model_id)>>
         IN  IF ~r.ok THEN Ran(Err(r.err), v)
             ELSE LET next == IF r.val.some THEN r.val.val ELSE model_id
                      rest == resolve_model_last_loop(plugins, next, i + 1)
                  IN  Ran(rest.out, v \o rest.visited)

\* PluginEngine::resolve_model where the last Some wins.
PluginEngine_resolve_model_last(plugins, model_id) ==
    resolve_model_last_loop(plugins, model_id, 1)

\* PluginEngine::resolve_model
PluginEngine_resolve_model(plugins, model_id) ==
    resolve_model_loop(plugins, model_id, 1)

RECURSIVE load_template_loop(_, _, _)
\* The for loop of PluginEngine::load_template, from plugin i on.
load_template_loop(plugins, template_name, i) ==
    IF i > Len(plugins) THEN Ran(Ok(None), <<>>)
    ELSE LET r == Plugin_load_template(plugins[i], template_name)
             v == <<Visit(plugins[i], template_name)>>
         IN  IF ~r.ok THEN Ran(Err(r.err), v)
             ELSE IF r.val.some THEN Ran(Ok(Some(r.val.val)), v)
             ELSE LET rest == load_template_loop(plugins, template_name, i + 1)
                  IN  Ran(rest.out, v \o rest.visited)

RECURSIVE load_template_eager_loop(_, _, _)
\* A load_template loop that asks every plugin before it answers: the first
\* error of any plugin is returned, else the first Some.
load_template_eager_loop(plugins, template_name, i) ==
    IF i > Len(plugins) THEN Ran(Ok(None), <<>>)
    ELSE LET r == Plugin_load_template(plugins[i], template_name)
             v == <<Visit(plugins[i], template_name)>>
             rest == load_template_eager_loop(plugins, template_name, i + 1)
         IN  IF ~r.ok THEN Ran(Err(r.err), v \o rest.visited)
             ELSE IF ~rest.out.ok THEN Ran(rest.out, v \o rest.visited)
             ELSE IF r.val.some THEN Ran(Ok(Some(r.val.val)), v \o rest.visited)
             ELSE Ran(rest.out, v \o rest.visited)

\* PluginEngine::load_template without the early return.
PluginEngine_load_template_eager(plugins, template_name) ==
    load_template_eager_loop(plugins, template_name, 1)

\* PluginEngine::load_template
PluginEngine_load_template(plugins, template_name) ==
    load_template_loop(plugins, template_name, 1)

RECURSIVE transform_params_loop(_, _, _)
\* The for loop of PluginEngine::transform_params, from plugin i on.
transform_params_loop(plugins, params, i) ==
    IF i > Len(plugins) THEN Ran(Ok(params), <<>>)
    ELSE LET r == Plugin_transform_params(plugins[i], params)
             v == <<Visit(plugins[i], params)>>
         IN  IF ~r.ok THEN Ran(Err(r.err), v)
             ELSE LET rest == transform_params_loop(plugins, r.val, i + 1)
                  IN  Ran(rest.out, v \o rest.visited)

RECURSIVE transform_params_unthreaded_loop(_, _, _, _)
\* A transform_params loop that hands every plugin the caller's params and
\* keeps the last plugin's output.
transform_params_unthreaded_loop(plugins, params, cur, i) ==
    IF i > Len(plugins) THEN Ran(Ok(cur), <<>>)
    ELSE LET r == Plugin_transform_params(plugins[i], params)
             v == <<Visit(plugins[i], params)>>
         IN  IF ~r.ok THEN Ran(Err(r.err), v)
             ELSE LET rest == transform_params_unthreaded_loop(plugins, params,
                                                               r.val, i + 1)
                  IN  Ran(rest.out, v \o rest.visited)

\* PluginEngine::transform_params that does not thread the value.
PluginEngine_transform_params_unthreaded(plugins, params) ==
    transform_params_unthreaded_loop(plugins, params, params, 1)

\* PluginEngine::transform_params
PluginEngine_transform_params(plugins, params) ==
    transform_params_loop(plugins, params, 1)

RECURSIVE transform_result_loop(_, _, _)
\* The for loop of PluginEngine::transform_result, from plugin i on.
transform_result_loop(plugins, result, i) ==
    IF i > Len(plugins) THEN Ran(Ok(result), <<>>)
    ELSE LET r == Plugin_transform_result(plugins[i], result)
             v == <<Visit(plugins[i], result)>>
         IN  IF ~r.ok THEN Ran(Err(r.err), v)
             ELSE LET rest == transform_result_loop(plugins, r.val, i + 1)
                  IN  Ran(rest.out, v \o rest.visited)

RECURSIVE transform_result_unthreaded_loop(_, _, _, _)
\* A transform_result loop that hands every plugin the first result and keeps
\* the last plugin's output.
transform_result_unthreaded_loop(plugins, result, cur, i) ==
    IF i > Len(plugins) THEN Ran(Ok(cur), <<>>)
    ELSE LET r == Plugin_transform_result(plugins[i], result)
             v == <<Visit(plugins[i], result)>>
         IN  IF ~r.ok THEN Ran(Err(r.err), v)
             ELSE LET rest == transform_result_unthreaded_loop(plugins, result,
                                                               r.val, i + 1)
                  IN  Ran(rest.out, v \o rest.visited)

\* PluginEngine::transform_result that does not thread the value.
PluginEngine_transform_result_unthreaded(plugins, result) ==
    transform_result_unthreaded_loop(plugins, result, result, 1)

\* PluginEngine::transform_result
PluginEngine_transform_result(plugins, result) ==
    transform_result_loop(plugins, result, 1)

RECURSIVE apply_stream_transforms_fold(_, _, _)
\* The fold of PluginEngine::apply_stream_transforms, from plugin i on.
apply_stream_transforms_fold(plugins, stream, i) ==
    IF i > Len(plugins) THEN Ran(stream, <<>>)
    ELSE LET rest == apply_stream_transforms_fold(
                         plugins, Plugin_transform_stream(plugins[i], stream), i + 1)
         IN  Ran(rest.out, <<Visit(plugins[i], stream)>> \o rest.visited)

\* An apply_stream_transforms that would fold from the last plugin to the
\* first (iter().rev()).
PluginEngine_apply_stream_transforms_reversed(plugins, stream) ==
    apply_stream_transforms_fold(
        [i \in 1..Len(plugins) |-> plugins[Len(plugins) + 1 - i]], stream, 1)

\* PluginEngine::apply_stream_transforms
PluginEngine_apply_stream_transforms(plugins, stream) ==
    apply_stream_transforms_fold(plugins, stream, 1)

(***************************************************************************)
(* types.rs: the values that flow through the hooks                        *)
(***************************************************************************)
\* TextParams::new(messages), with_max_tokens, with_tools
TextParams(messages, max_tokens, tools) ==
    [messages |-> messages, max_tokens |-> max_tokens, temperature |-> None,
     top_p |-> None, frequency_penalty |-> None, presence_penalty |-> None,
     stop |-> None, tools |-> tools, extra |-> <<>>]

\* serde_json::Value: its variant and what the variant holds.
JsonValue(type, v) == [type |-> type, v |-> v]

\* Tool { name, description, parameters }
Tool(name, description, parameters) ==
    [name |-> name, description |-> description, parameters |-> parameters]

\* The TextParams a caller passes: the defaults of TextParams::new, and
\* params with every optional field set.
ParamsInputs ==
    { TextParams(<<>>, None, None),
      [TextParams(<<7, 8>>, Some(16),
                  Some(<<Tool("lookup", <<"Look up a word">>,
                              JsonValue("object", <<>>))>>))
          EXCEPT !.temperature = Some(5), !.top_p = Some(9),
                 !.frequency_penalty = Some(1), !.presence_penalty = Some(2),
                 !.stop = Some(<<"END">>), !.extra = << <<"seed", 42>> >>] }

\* TextResult
TextResult(content, finish_reason, usage, model) ==
    [content |-> content, finish_reason |-> finish_reason, usage |-> usage,
     model |-> model, tool_calls |-> None]

\* The TextResult a caller hands to transform_result directly.
ResultInputs ==
    { TextResult(<<>>, "Stop", 0, "m0"),
      TextResult(<<5, 6>>, "Length", 9, "m0") }

TemplateNames == {"greeting"}

\* The base stream handed to apply_stream_transforms: the connector's stream
\* (0) and no wrapper yet.
BaseStream == <<0>>

(***************************************************************************)
(* Connectors (provider.rs: trait Provider) and what wraps them            *)
(* (layer.rs: trait LayeredProvider)                                       *)
(***************************************************************************)
\* ProviderInfo.id of the connector the executor was built on.
ProviderId == "base"

\* The backend ids a base connector may declare: the four
\* detect_json_strategy names, and two it does not name.
ProviderIds == {"openai", "anthropic", "azure", "deepseek", "unknown", ProviderId}

\* ProviderInfo { id, name }
ProviderInfo(id, name) == [id |-> id, name |-> name]

\* A base connector: a Provider that wraps nothing.
Connector(id) == [kind |-> "Base", info |-> ProviderInfo(id, <<"name of", id>>)]

RECURSIVE Provider_info(_)
\* Provider::info.  A layered provider answers layered_info, whose default
\* (the only implementation) is self.inner().info().
Provider_info(provider) ==
    IF provider.kind = "Base" THEN provider.info
    ELSE Provider_info(provider.inner)

(***************************************************************************)
(* strategy/json_output.rs: the strategies and their selection             *)
(***************************************************************************)
\* JsonSchemaStrategy::with_strict
JsonSchemaStrategy_with_strict(strict) ==
    [name |-> "JsonSchemaStrategy", strict |-> strict]

\* JsonSchemaStrategy::new
JsonSchemaStrategy_new == [name |-> "JsonSchemaStrategy", strict |-> TRUE]

\* JsonModeStrategy::with_system_message
JsonModeStrategy_with_system_message(use_system_message) ==
    [name |-> "JsonModeStrategy", use_system_message |-> use_system_message]

\* JsonModeStrategy::new
JsonModeStrategy_new == [name |-> "JsonModeStrategy", use_system_message |-> TRUE]

\* The strategies a caller can construct.
Strategies ==
    { JsonSchemaStrategy_with_strict(b) : b \in BOOLEAN }
    \cup { JsonModeStrategy_with_system_message(b) : b \in BOOLEAN }

\* detect_json_strategy with the first arm taken by every id.
detect_json_strategy_always_schema(provider_id) == JsonSchemaStrategy_new

\* detect_json_strategy
detect_json_strategy(provider_id) ==
    CASE provider_id \in {"openai", "anthropic", "azure"} -> JsonSchemaStrategy_new
      [] provider_id = "deepseek" -> JsonModeStrategy_new
      [] OTHER -> JsonModeStrategy_new

(***************************************************************************)
(* executor.rs: RuntimeExecutorBuilder                                     *)
(***************************************************************************)
NoDrv == [op |-> "none"]
NoCall == [model |-> "none"]
NoBatch == <<>>
NoRet == [returned |-> FALSE]
NoAssoc == [set |-> FALSE]
NoRetry == [pc |-> "off"]
NoCalls == <<>>
NoDelay == [pc |-> "off"]
NoStack == [pc |-> "off"]
NoStrat == [pc |-> "off"]
NoParked == [pc |-> "off"]
NoRegistry == [pc |-> "off"]

\* RuntimeExecutorBuilder::new
Builder_new(provider) ==
    [provider |-> provider, plugins |-> <<>>, json_strategy |-> None]

\* One builder method call, as the history `calls` keeps it.
BuilderCall(op, arg) == [op |-> op, arg |-> arg]

\* RuntimeExecutorBuilder::new: no plugin yet; nothing runs before finish().
Init ==
    /\ builder = Builder_new(Connector(ProviderId))
    /\ executor = [built |-> FALSE, plugin_engine |-> <<>>]
    /\ drv = NoDrv
    /\ pc = "building"
    /\ call = NoCall
    /\ batch = NoBatch
    /\ log = <<>>
    /\ ret = NoRet
    /\ assoc = NoAssoc
    /\ retry = NoRetry
    /\ calls = NoCalls
    /\ delay = NoDelay
    /\ stack = NoStack
    /\ parked = NoParked
    /\ registry = NoRegistry
    /\ strat = NoStrat

\* RuntimeExecutorBuilder::plugin: self.plugins.push(plugin)
Builder_plugin ==
    /\ pc = "building"
    /\ Len(builder.plugins) < MaxPlugins
    /\ Len(calls) < MaxBuilderCalls
    /\ \E k \in PluginKinds :
           builder' = [builder EXCEPT
                          !.plugins = Append(@, MkPlugin(k, Len(@) + 1))]
    /\ calls' = Append(calls, BuilderCall("plugin", Len(builder.plugins) + 1))
    /\ UNCHANGED <<executor, drv, pc, call, batch, log, ret, assoc, retry,
                   delay, stack, strat, parked, registry>>

\* Line 86 when the explicit strategy is dropped.
finish_json_strategy_detect_only(json_strategy, provider_id) ==
    detect_json_strategy(provider_id)

\* Lines 84-86: self.json_strategy.unwrap_or_else(|| detect_json_strategy(&provider_id))
finish_json_strategy(json_strategy, provider_id) ==
    IF json_strategy.some THEN json_strategy.val
    ELSE detect_json_strategy(provider_id)

\* RuntimeExecutorBuilder::finish
Builder_finish ==
    /\ pc = "building"
    /\ executor' = [built |-> TRUE,
                    provider |-> builder.provider,
                    plugin_engine |-> PluginEngine_new(builder.plugins),
                    json_strategy |->
                        finish_json_strategy(builder.json_strategy,
                                             Provider_info(builder.provider).id)]
    /\ pc' = "ready"
    /\ UNCHANGED <<builder, drv, call, batch, log, ret, assoc, retry,
                   calls, delay, stack, strat, parked, registry>>

(***************************************************************************)
(* Direct calls of the engine's drivers, through RuntimeExecutor::         *)
(* plugin_engine(), on a finished executor.                                *)
(***************************************************************************)
Drove(op, arg, ran) ==
    [op |-> op, arg |-> arg, out |-> ran.out, visited |-> ran.visited]

Engine_resolve_model ==
    /\ pc = "ready"
    /\ \E m \in Models :
           drv' = Drove("resolve_model", m,
                        PluginEngine_resolve_model(executor.plugin_engine, m))
    /\ UNCHANGED <<builder, executor, pc, call, batch, log, ret, assoc, retry,
                   calls, delay, stack, strat, parked, registry>>

Engine_load_template ==
    /\ pc = "ready"
    /\ \E t \in TemplateNames :
           drv' = Drove("load_template", t,
                        PluginEngine_load_template(executor.plugin_engine, t))
    /\ UNCHANGED <<builder, executor, pc, call, batch, log, ret, assoc, retry,
                   calls, delay, stack, strat, parked, registry>>

Engine_transform_params ==
    /\ pc = "ready"
    /\ \E p \in ParamsInputs :
           drv' = Drove("transform_params", p,
                        PluginEngine_transform_params(executor.plugin_engine, p))
    /\ UNCHANGED <<builder, executor, pc, call, batch, log, ret, assoc, retry,
                   calls, delay, stack, strat, parked, registry>>

Engine_transform_result ==
    /\ pc = "ready"
    /\ \E r \in ResultInputs :
           drv' = Drove("transform_result", r,
                        PluginEngine_transform_result(executor.plugin_engine, r))
    /\ UNCHANGED <<builder, executor, pc, call, batch, log, ret, assoc, retry,
                   calls, delay, stack, strat, parked, registry>>

Engine_apply_stream_transforms ==
    /\ pc = "ready"
    /\ drv' = Drove("apply_stream_transforms", BaseStream,
                    PluginEngine_apply_stream_transforms(executor.plugin_engine,
                                                         BaseStream))
    /\ UNCHANGED <<builder, executor, pc, call, batch, log, ret, assoc, retry,
                   calls, delay, stack, strat, parked, registry>>

NextEngine ==
    \/ Builder_plugin
    \/ Builder_finish
    \/ Engine_resolve_model
    \/ Engine_load_template
    \/ Engine_transform_params
    \/ Engine_transform_result
    \/ Engine_apply_stream_transforms

\* The builder, then direct calls of the engine's drivers.
SpecEngine == Init /\ [][NextEngine]_vars

(***************************************************************************)
(* The connector (provider.rs: trait Provider) behind the executor         *)
(***************************************************************************)
\* ContentPart::Text { text } and a part that is not text.
TextPart(text) == [type |-> "Text", text |-> text]
ImagePart == [type |-> "Image", text |-> <<>>]

\* Choice { message: Message { content }, finish_reason }
Choice(content, finish_reason) ==
    [content |-> content, finish_reason |-> finish_reason]

\* ChatCompletionResponse { model, choices, usage }
Response(model, choices, usage) ==
    [model |-> model, choices |-> choices, usage |-> usage]

\* The responses the connector may give.
Responses ==
    { Response("srv", <<>>, 1),
      Response("srv", <<Choice(<<TextPart(<<1>>)>>, "Stop")>>, 2),
      Response("srv", <<Choice(<<TextPart(<<1>>), ImagePart, TextPart(<<2, 3>>)>>,
                               "Length")>>, 3),
      Response("srv", <<Choice(<<TextPart(<<4>>)>>, "Stop"),
                        Choice(<<TextPart(<<9>>)>>, "Length")>>, 4) }

\* The error kinds the connector behind the executor may fail with.
ConnectorErrorKinds == {"Network", "Provider"}

\* What one chat_completion call of the connector may return.
ConnectorOutcomes ==
    {Ok(r) : r \in Responses} \cup {Err(ConnectorError(k)) : k \in ConnectorErrorKinds}

(***************************************************************************)
(* executor.rs: RuntimeExecutor::generate_text                             *)
(***************************************************************************)
\* uuid::Uuid::new_v4(): an id that the context of no other call holds.
Uuid_new_v4 ==
    IF parked.pc # "off" /\ "ctx" \in DOMAIN parked.call
    THEN parked.call.ctx.request_id + 1
    ELSE 1

\* RequestContext::new with its two String arguments taken in the other
\* order.
RequestContext_new_swapped(provider_id, model) ==
    [request_id |-> Uuid_new_v4, provider_id |-> model, model |-> provider_id]

\* RequestContext::new(provider_id, model)
RequestContext_new(provider_id, model) ==
    [request_id |-> Uuid_new_v4, provider_id |-> provider_id, model |-> model]

\* The ChatCompletionRequest literal of generate_text.
ChatRequest(resolved_model, tp) ==
    [model |-> resolved_model, messages |-> tp.messages,
     temperature |-> tp.temperature, max_tokens |-> tp.max_tokens,
     top_p |-> tp.top_p, frequency_penalty |-> tp.frequency_penalty,
     presence_penalty |-> tp.presence_penalty, stop |-> tp.stop,
     tools |-> tp.tools, response_format |-> Some("Text"),
     stream |-> Some(FALSE), extra |-> tp.extra]

RECURSIVE JoinText(_)
\* content.iter().filter_map(text parts).collect().join("")
JoinText(parts) ==
    IF parts = <<>> THEN <<>>
    ELSE (IF Head(parts).type = "Text" THEN Head(parts).text ELSE <<>>)
         \o JoinText(Tail(parts))

\* A conversion that would read the last choice instead of the first.
ToTextResult_last_choice(response) ==
    IF response.choices = <<>> THEN Err(NoChoicesError)
    ELSE LET last_choice == response.choices[Len(response.choices)]
         IN  Ok(TextResult(JoinText(last_choice.content),
                           last_choice.finish_reason, response.usage,
                           response.model))

\* A conversion that would answer a response without choices with an empty
\* text instead of an error.
ToTextResult_empty_text(response) ==
    IF response.choices = <<>>
    THEN Ok(TextResult(<<>>, "Stop", response.usage, response.model))
    ELSE LET first_choice == response.choices[1]
         IN  Ok(TextResult(JoinText(first_choice.content),
                           first_choice.finish_reason, response.usage,
                           response.model))

\* The conversion of a ChatCompletionResponse to a TextResult.
ToTextResult(response) ==
    IF response.choices = <<>> THEN Err(NoChoicesError)
    ELSE LET first_choice == response.choices[1]
         IN  Ok(TextResult(JoinText(first_choice.content),
                           first_choice.finish_reason, response.usage,
                           response.model))

\* Log entries: the call of the connector (plugin 0), the call of a driver of
\* the engine (plugin 0) with the &ctx it was given, and the invocation of
\* one plugin's hook, with the ctx the driver handed it and whether it
\* returned Ok.
Marker(stage) == [stage |-> stage, plugin |-> 0, ok |-> TRUE]
DriverCall(stage, ctx) == [stage |-> stage, plugin |-> 0, ok |-> TRUE, ctx |-> ctx]
HookEvent(stage, name, ok, ctx) ==
    [stage |-> stage, plugin |-> name, ok |-> ok, ctx |-> ctx]
HookEvents(stage, ctx, ran) ==
    [i \in 1..Len(ran.visited) |->
        HookEvent(stage, ran.visited[i].plugin,
                  (i < Len(ran.visited)) \/ ran.out.ok, ctx)]

\* The hooks of a parallel batch that have completed: those that returned Ok
\* in engine order (the order in which they completed is not kept), then the
\* one whose Err ended the batch.
BatchEvents(stage, ctx, plugins, b) ==
    LET all == [i \in 1..Len(plugins) |->
                   [stage |-> stage, plugin |-> plugins[i].name,
                    ok |-> b[i] = "ok", st |-> b[i]]]
        done == SelectSeq(all, LAMBDA e : e.st = "ok")
                    \o SelectSeq(all, LAMBDA e : e.st = "err")
    IN  [i \in 1..Len(done) |->
            HookEvent(stage, done[i].plugin, done[i].ok, ctx)]

Returned(r) == [returned |-> TRUE, res |-> r]

\* The futures of one parallel batch: one per plugin, none polled yet.
NewBatch(plugins) == [i \in 1..Len(plugins) |-> "pending"]
Pending(i) == i \in DOMAIN batch /\ batch[i] = "pending"
AllJoined == \A i \in DOMAIN batch : batch[i] = "ok"

\* The statements of generate_text's success path, lines 139-197, in the
\* order they are written: what runs once `stage` has returned Ok.
StageAfter_start_skipped(stage) ==
    CASE stage = "resolve_model" -> "transform_params"
      [] stage = "transform_params" -> "chat_completion"
      [] stage = "on_request_start" -> "chat_completion"
      [] stage = "chat_completion" -> "transform_result"
      [] stage = "transform_result" -> "on_request_end"

StageAfter(stage) ==
    CASE stage = "resolve_model" -> "transform_params"
      [] stage = "transform_params" -> "on_request_start"
      [] stage = "on_request_start" -> "chat_completion"
      [] stage = "chat_completion" -> "transform_result"
      [] stage = "transform_result" -> "on_request_end"

\* Lines 132-136: the locals and the request context.
GT_begin ==
    /\ pc = "ready"
    /\ \E m \in Models, p \in ParamsInputs :
           call' = [model |-> m, params |-> p,
                    ctx |-> RequestContext_new(Provider_info(executor.provider).id, m),
                    resolved_model |-> None, transformed_params |-> None,
                    chat_req |-> None, conn |-> None, result |-> None,
                    ended_with |-> None]
    /\ pc' = "resolve_model"
    /\ UNCHANGED <<builder, executor, drv, batch, log, ret, assoc, retry,
                   calls, delay, stack, strat, parked, registry>>

\* Line 139: self.plugin_engine.resolve_model(&model, &ctx).await?
GT_resolve_model ==
    /\ pc = "resolve_model"
    /\ LET ran == PluginEngine_resolve_model(executor.plugin_engine, call.model)
       IN  /\ log' = log \o <<DriverCall("resolve_model", call.ctx)>>
                         \o HookEvents("resolve_model", call.ctx, ran)
           /\ IF ran.out.ok
              THEN /\ call' = [call EXCEPT !.resolved_model = Some(ran.out.val)]
                   /\ pc' = StageAfter("resolve_model")
                   /\ ret' = ret
              ELSE /\ ret' = Returned(Err(ran.out.err))
                   /\ pc' = "done"
                   /\ call' = call
    /\ UNCHANGED <<builder, executor, drv, batch, assoc, retry,
                   calls, delay, stack, strat, parked, registry>>

\* Line 142 with the error dropped: the caller's params are used instead.
GT_transform_params_error_dropped ==
    /\ pc = "transform_params"
    /\ LET ran == PluginEngine_transform_params(executor.plugin_engine, call.params)
       IN  /\ log' = log \o <<DriverCall("transform_params", call.ctx)>>
                         \o HookEvents("transform_params", call.ctx, ran)
           /\ call' = [call EXCEPT !.transformed_params =
                           Some(IF ran.out.ok THEN ran.out.val ELSE call.params)]
           /\ pc' = StageAfter("transform_params")
           /\ ret' = ret
    /\ UNCHANGED <<builder, executor, drv, batch, assoc, retry,
                   calls, delay, stack, strat, parked, registry>>

\* Line 142: self.plugin_engine.transform_params(params, &ctx).await?
GT_transform_params ==
    /\ pc = "transform_params"
    /\ LET ran == PluginEngine_transform_params(executor.plugin_engine, call.params)
       IN  /\ log' = log \o <<DriverCall("transform_params", call.ctx)>>
                         \o HookEvents("transform_params", call.ctx, ran)
           /\ IF ran.out.ok
              THEN /\ call' = [call EXCEPT !.transformed_params = Some(ran.out.val)]
                   /\ pc' = StageAfter("transform_params")
                   /\ ret' = ret
              ELSE /\ ret' = Returned(Err(ran.out.err))
                   /\ pc' = "done"
                   /\ call' = call
    /\ UNCHANGED <<builder, executor, drv, batch, assoc, retry,
                   calls, delay, stack, strat, parked, registry>>

\* Line 145, plugin.rs 206-215: the futures of on_request_start are collected
\* and handed to try_join_all.
GT_on_request_start ==
    /\ pc = "on_request_start"
    /\ batch' = NewBatch(executor.plugin_engine)
    /\ log' = Append(log, DriverCall("on_request_start", call.ctx))
    /\ pc' = "join_request_start"
    /\ UNCHANGED <<builder, executor, drv, call, ret, assoc, retry,
                   calls, delay, stack, strat, parked, registry>>

\* An on_request_start batch that would wait for every hook before it returns
\* the error of one of them (join_all, then the first Err).
GT_request_start_hook_waiting ==
    /\ pc = "join_request_start"
    /\ \E i \in DOMAIN batch :
           /\ Pending(i)
           /\ LET p == executor.plugin_engine[i]
                  b == [batch EXCEPT ![i] = IF p.rs = "Ok" THEN "ok" ELSE "err"]
                  failed == {j \in DOMAIN b : b[j] = "err"}
                  left == {j \in DOMAIN b : b[j] = "pending"}
              IN  IF left # {} \/ failed = {}
                  THEN /\ batch' = b
                       /\ UNCHANGED <<pc, ret, log>>
                  ELSE /\ batch' = NoBatch
                       /\ log' = log \o BatchEvents("on_request_start", call.ctx,
                                                    executor.plugin_engine, b)
                       /\ ret' = Returned(Err(PluginError(
                                     executor.plugin_engine[CHOOSE j \in failed :
                                         \A k \in failed : j <= k],
                                     "on_request_start")))
                       /\ pc' = "done"
    /\ UNCHANGED <<builder, executor, drv, call, assoc, retry,
                   calls, delay, stack, strat, parked, registry>>

\* One on_request_start hook completes; an Err ends try_join_all at once and the `?` returns it.
GT_request_start_hook ==
    /\ pc = "join_request_start"
    /\ \E i \in DOMAIN batch :
           /\ Pending(i)
           /\ LET p == executor.plugin_engine[i]
              IN  IF p.rs = "Ok"
                  THEN /\ batch' = [batch EXCEPT ![i] = "ok"]
                       /\ UNCHANGED <<pc, ret, log>>
                  ELSE /\ batch' = NoBatch
                       /\ log' = log \o BatchEvents("on_request_start", call.ctx,
                                                    executor.plugin_engine,
                                                    [batch EXCEPT ![i] = "err"])
                       /\ ret' = Returned(Err(PluginError(p, "on_request_start")))
                       /\ pc' = "done"
    /\ UNCHANGED <<builder, executor, drv, call, assoc, retry,
                   calls, delay, stack, strat, parked, registry>>

\* try_join_all returns Ok: every on_request_start hook returned Ok.
GT_request_start_joined ==
    /\ pc = "join_request_start"
    /\ AllJoined
    /\ batch' = NoBatch
    /\ log' = log \o BatchEvents("on_request_start", call.ctx, executor.plugin_engine, batch)
    /\ pc' = StageAfter("on_request_start")
    /\ UNCHANGED <<builder, executor, drv, call, ret, assoc, retry,
                   calls, delay, stack, strat, parked, registry>>

\* Lines 148-164: the request is built and the connector called.
GT_chat_completion ==
    /\ pc = "chat_completion"
    /\ \E outcome \in ConnectorOutcomes :
           call' = [call EXCEPT
                       !.chat_req = Some(ChatRequest(call.resolved_model.val,
                                                     call.transformed_params.val)),
                       !.conn = Some(outcome)]
    /\ log' = Append(log, Marker("chat_completion"))
    /\ pc' = "match_result"
    /\ UNCHANGED <<builder, executor, drv, batch, ret, assoc, retry,
                   calls, delay, stack, strat, parked, registry>>

\* A match arm that would report a response without choices to the on_error
\* hooks before it returns the error.
GT_convert_reporting ==
    /\ pc = "match_result"
    /\ call.conn.val.ok
    /\ LET r == ToTextResult(call.conn.val.val)
       IN  IF r.ok
           THEN /\ call' = [call EXCEPT !.result = Some(r.val)]
                /\ pc' = StageAfter("chat_completion")
                /\ UNCHANGED <<batch, log>>
           ELSE /\ batch' = NewBatch(executor.plugin_engine)
                /\ log' = Append(log, DriverCall("on_error", call.ctx))
                /\ pc' = "join_error"
                /\ call' = call
    /\ UNCHANGED <<builder, executor, drv, ret, assoc, retry,
                   calls, delay, stack, strat, parked, registry>>

\* Lines 167-191: Ok(response): the first choice becomes a TextResult.
GT_convert ==
    /\ pc = "match_result"
    /\ call.conn.val.ok
    /\ LET r == ToTextResult(call.conn.val.val)
       IN  IF r.ok
           THEN /\ call' = [call EXCEPT !.result = Some(r.val)]
                /\ pc' = StageAfter("chat_completion")
                /\ ret' = ret
           ELSE /\ ret' = Returned(Err(r.err))
                /\ pc' = "done"
                /\ call' = call
    /\ UNCHANGED <<builder, executor, drv, batch, log, assoc, retry,
                   calls, delay, stack, strat, parked, registry>>

\* Line 194 without the rebinding of `result`: the chain runs and its error
\* is returned, but the connector's result goes on.
GT_transform_result_discarded ==
    /\ pc = "transform_result"
    /\ LET ran == PluginEngine_transform_result(executor.plugin_engine,
                                                call.result.val)
       IN  /\ log' = log \o <<DriverCall("transform_result", call.ctx)>>
                         \o HookEvents("transform_result", call.ctx, ran)
           /\ IF ran.out.ok
              THEN /\ pc' = StageAfter("transform_result")
                   /\ ret' = ret
              ELSE /\ ret' = Returned(Err(ran.out.err))
                   /\ pc' = "done"
           /\ call' = call
    /\ UNCHANGED <<builder, executor, drv, batch, assoc, retry,
                   calls, delay, stack, strat, parked, registry>>

\* Line 194: self.plugin_engine.transform_result(result, &ctx).await?
GT_transform_result ==
    /\ pc = "transform_result"
    /\ LET ran == PluginEngine_transform_result(executor.plugin_engine,
                                                call.result.val)
       IN  /\ log' = log \o <<DriverCall("transform_result", call.ctx)>>
                         \o HookEvents("transform_result", call.ctx, ran)
           /\ IF ran.out.ok
              THEN /\ call' = [call EXCEPT !.result = Some(ran.out.val)]
                   /\ pc' = StageAfter("transform_result")
                   /\ ret' = ret
              ELSE /\ ret' = Returned(Err(ran.out.err))
                   /\ pc' = "done"
                   /\ call' = call
    /\ UNCHANGED <<builder, executor, drv, batch, assoc, retry,
                   calls, delay, stack, strat, parked, registry>>

\* Line 197, plugin.rs 220-233: the futures of on_request_end, each made with
\* &result; `ended_with` keeps the result they were made with.
GT_on_request_end ==
    /\ pc = "on_request_end"
    /\ batch' = NewBatch(executor.plugin_engine)
    /\ call' = [call EXCEPT !.ended_with = Some(call.result.val)]
    /\ log' = Append(log, DriverCall("on_request_end", call.ctx))
    /\ pc' = "join_request_end"
    /\ UNCHANGED <<builder, executor, drv, ret, assoc, retry,
                   calls, delay, stack, strat, parked, registry>>

\* One on_request_end hook completes; an Err ends try_join_all at once and the `?` returns it.
GT_request_end_hook ==
    /\ pc = "join_request_end"
    /\ \E i \in DOMAIN batch :
           /\ Pending(i)
           /\ LET p == executor.plugin_engine[i]
              IN  IF p.re = "Ok"
                  THEN /\ batch' = [batch EXCEPT ![i] = "ok"]
                       /\ UNCHANGED <<pc, ret, log>>
                  ELSE /\ batch' = NoBatch
                       /\ log' = log \o BatchEvents("on_request_end", call.ctx,
                                                    executor.plugin_engine,
                                                    [batch EXCEPT ![i] = "err"])
                       /\ ret' = Returned(Err(PluginError(p, "on_request_end")))
                       /\ pc' = "done"
    /\ UNCHANGED <<builder, executor, drv, call, assoc, retry,
                   calls, delay, stack, strat, parked, registry>>

\* Line 199: try_join_all returned Ok; Ok(result).
GT_request_end_joined ==
    /\ pc = "join_request_end"
    /\ AllJoined
    /\ batch' = NoBatch
    /\ log' = log \o BatchEvents("on_request_end", call.ctx, executor.plugin_engine, batch)
    /\ ret' = Returned(Ok(call.result.val))
    /\ pc' = "done"
    /\ UNCHANGED <<builder, executor, drv, call, assoc, retry,
                   calls, delay, stack, strat, parked, registry>>

\* Line 203, plugin.rs 238-247: Err(err): the futures of on_error.
GT_on_error ==
    /\ pc = "match_result"
    /\ ~call.conn.val.ok
    /\ batch' = NewBatch(executor.plugin_engine)
    /\ log' = Append(log, DriverCall("on_error", call.ctx))
    /\ pc' = "join_error"
    /\ UNCHANGED <<builder, executor, drv, call, ret, assoc, retry,
                   calls, delay, stack, strat, parked, registry>>

\* Line 203 written with `?`: a failing on_error hook replaces the error.
AfterOnError_propagated(conn_err, batch_result) ==
    IF batch_result.ok THEN Err(conn_err) ELSE Err(batch_result.err)

\* What generate_text returns once the on_error batch has ended with
\* `batch_result`: `let _ =` drops it, Err(err) is the connector's error.
AfterOnError(conn_err, batch_result) == Err(conn_err)

\* An on_error batch that would wait for every hook before it returns
\* (join_all): a failing hook leaves its siblings running.
GT_error_hook_waiting ==
    /\ pc = "join_error"
    /\ \E i \in DOMAIN batch :
           /\ Pending(i)
           /\ LET p == executor.plugin_engine[i]
                  b == [batch EXCEPT ![i] = IF p.oe = "Ok" THEN "ok" ELSE "err"]
                  failed == {j \in DOMAIN b : b[j] = "err"}
                  left == {j \in DOMAIN b : b[j] = "pending"}
              IN  IF left # {} \/ failed = {}
                  THEN /\ batch' = b
                       /\ UNCHANGED <<pc, ret, log>>
                  ELSE /\ batch' = NoBatch
                       /\ log' = log \o BatchEvents("on_error", call.ctx,
                                                    executor.plugin_engine, b)
                       /\ ret' = Returned(AfterOnError(call.conn.val.err,
                                            Err(PluginError(p, "on_error"))))
                       /\ pc' = "done"
    /\ UNCHANGED <<builder, executor, drv, call, assoc, retry,
                   calls, delay, stack, strat, parked, registry>>

\* One on_error hook completes; an Err ends try_join_all at once.
GT_error_hook ==
    /\ pc = "join_error"
    /\ \E i \in DOMAIN batch :
           /\ Pending(i)
           /\ LET p == executor.plugin_engine[i]
              IN  IF p.oe = "Ok"
                  THEN /\ batch' = [batch EXCEPT ![i] = "ok"]
                       /\ UNCHANGED <<pc, ret, log>>
                  ELSE /\ batch' = NoBatch
                       /\ log' = log \o BatchEvents("on_error", call.ctx, executor.plugin_engine,
                                                    [batch EXCEPT ![i] = "err"])
                       /\ ret' = Returned(AfterOnError(call.conn.val.err,
                                            Err(PluginError(p, "on_error"))))
                       /\ pc' = "done"
    /\ UNCHANGED <<builder, executor, drv, call, assoc, retry,
                   calls, delay, stack, strat, parked, registry>>

\* A match arm that would end the call after on_error without a value to
\* return: neither a result nor an error reaches the caller.
GT_error_joined_unreturned ==
    /\ pc = "join_error"
    /\ AllJoined
    /\ batch' = NoBatch
    /\ log' = log \o BatchEvents("on_error", call.ctx, executor.plugin_engine, batch)
    /\ ret' = ret
    /\ pc' = "done"
    /\ UNCHANGED <<builder, executor, drv, call, assoc, retry,
                   calls, delay, stack, strat, parked, registry>>

\* Line 204: try_join_all returned Ok; Err(err).
GT_error_joined ==
    /\ pc = "join_error"
    /\ AllJoined
    /\ batch' = NoBatch
    /\ log' = log \o BatchEvents("on_error", call.ctx, executor.plugin_engine, batch)
    /\ ret' = Returned(AfterOnError(call.conn.val.err, Ok(<<>>)))
    /\ pc' = "done"
    /\ UNCHANGED <<builder, executor, drv, call, assoc, retry,
                   calls, delay, stack, strat, parked, registry>>

generate_text ==
    \/ GT_begin
    \/ GT_resolve_model
    \/ GT_transform_params
    \/ GT_on_request_start
    \/ GT_request_start_hook
    \/ GT_request_start_joined
    \/ GT_chat_completion
    \/ GT_convert
    \/ GT_transform_result
    \/ GT_on_request_end
    \/ GT_request_end_hook
    \/ GT_request_end_joined
    \/ GT_on_error
    \/ GT_error_hook
    \/ GT_error_joined

Next ==
    \/ Builder_plugin
    \/ Builder_finish
    \/ generate_text

\* The builder, then one generate_text call on the finished executor.
Spec == Init /\ [][Next]_vars

(***************************************************************************)
(* Two engines in a row against one engine: the sequential chains of       *)
(* PluginEngine::new(l1) then PluginEngine::new(l2), and of                *)
(* PluginEngine::new(l1 \o l2), on the same value.                         *)
(***************************************************************************)
\* The lists of at most n registered plugins, named from `first` on.
RECURSIVE PluginLists(_, _)
PluginLists(first, n) ==
    IF n = 0 THEN {<<>>}
    ELSE {<<>>} \cup
         { <<MkPlugin(k, first)>> \o rest :
               k \in PluginKinds, rest \in PluginLists(first + 1, n - 1) }

\* One sequential chain of an engine, by the hook's name.
RunChain(hook, plugins, v) ==
    IF hook = "transform_params"
    THEN PluginEngine_transform_params(plugins, v).out
    ELSE PluginEngine_transform_result(plugins, v).out

InitAssoc ==
    /\ builder = [plugins |-> <<>>]
    /\ executor = [built |-> FALSE, plugin_engine |-> <<>>]
    /\ drv = NoDrv
    /\ pc = "assoc"
    /\ call = NoCall
    /\ batch = NoBatch
    /\ log = <<>>
    /\ ret = NoRet
    /\ retry = NoRetry
    /\ calls = NoCalls
    /\ delay = NoDelay
    /\ stack = NoStack
    /\ parked = NoParked
    /\ registry = NoRegistry
    /\ strat = NoStrat
    /\ \E l1 \in PluginLists(1, MaxPlugins - 1) :
       \E l2 \in PluginLists(Len(l1) + 1, MaxPlugins - Len(l1)) :
       \E hook \in {"transform_params", "transform_result"} :
       \E v \in (IF hook = "transform_params" THEN ParamsInputs ELSE ResultInputs) :
           assoc = [set |-> TRUE, l1 |-> l1, l2 |-> l2, hook |-> hook, v |-> v,
                    split |-> None, whole |-> None]

\* The engine of l1, then the engine of l2 on its output.
Assoc_split ==
    /\ pc = "assoc"
    /\ ~assoc.split.some
    /\ LET first == RunChain(assoc.hook, PluginEngine_new(assoc.l1), assoc.v)
           out == IF first.ok
                  THEN RunChain(assoc.hook, PluginEngine_new(assoc.l2), first.val)
                  ELSE first
       IN  assoc' = [assoc EXCEPT !.split = Some(out)]
    /\ UNCHANGED <<builder, executor, drv, pc, call, batch, log, ret, retry,
                   calls, delay, stack, strat, parked, registry>>

\* One engine of all the plugins.
Assoc_whole ==
    /\ pc = "assoc"
    /\ ~assoc.whole.some
    /\ assoc' = [assoc EXCEPT
                    !.whole = Some(RunChain(assoc.hook,
                                            PluginEngine_new(assoc.l1 \o assoc.l2),
                                            assoc.v))]
    /\ UNCHANGED <<builder, executor, drv, pc, call, batch, log, ret, retry,
                   calls, delay, stack, strat, parked, registry>>

NextAssoc ==
    \/ Assoc_split
    \/ Assoc_whole

SpecAssoc == InitAssoc /\ [][NextAssoc]_vars

(***************************************************************************)
(* aidale-provider/src/openai.rs: OpenAiProvider                           *)
(***************************************************************************)
\* What the async-openai builders and client, which are not part of this
\* repository, may answer: whether a derive_builder build() succeeds, and the
\* Result of Chat::create / Chat::create_stream with the variants of
\* OpenAIError a chat call can give (Reqwest: transport failures and
\* timeouts; ApiError: the API's own errors, rate limits and rejected keys
\* among them).
BuildOutcomes == {"built", "message build fails", "request build fails"}
OpenAIErrors ==
    {"Reqwest", "ApiError", "JSONDeserialize", "StreamError", "InvalidArgument"}
ClientOutcomes == {Ok("completion")} \cup {Err(e) : e \in OpenAIErrors}

\* AiError::provider(msg)
AiError_provider(msg) == [kind |-> "Provider", who |-> 0, msg |-> msg]

\* A map_err that would sort the client's errors into the kinds of AiError:
\* transport failures as Network, API errors as RateLimit.
OpenAi_map_err_classified(e) ==
    CASE e = "Reqwest" -> [kind |-> "Network", who |-> 0, msg |-> "OpenAI API error"]
      [] e = "ApiError" -> [kind |-> "RateLimit", who |-> 0, msg |-> "OpenAI API error"]
      [] OTHER -> AiError_provider("OpenAI API error")

\* Lines 300 and 317: .map_err(|e| AiError::provider(format!("OpenAI API
\* error: {}", e)))
OpenAi_map_err(e) == AiError_provider("OpenAI API error")

\* build_request: convert_message maps a failed message build to a Provider
\* error (lines 76-78, 85-87, 94-96, 104-106), convert_response_format
\* returns Ok for every format, and a failed build of the request is mapped
\* to a Provider error (line 170).
OpenAi_build_request(built) ==
    CASE built = "message build fails" -> Err(AiError_provider("Failed to build message"))
      [] built = "request build fails" -> Err(AiError_provider("Failed to build request"))
      [] OTHER -> Ok("openai_req")

\* OpenAiProvider::chat_completion, lines 289-303: build_request(&req)?, the
\* client's create mapped by map_err and `?`, convert_response (always Ok).
OpenAiProvider_chat_completion(built, client) ==
    LET openai_req == OpenAi_build_request(built)
    IN  IF ~openai_req.ok THEN Err(openai_req.err)
        ELSE IF ~client.ok THEN Err(OpenAi_map_err(client.err))
        ELSE Ok("response")

\* OpenAiProvider::stream_chat_completion, lines 305-329, up to the stream it
\* returns: build_request(&req)?, stream = Some(true), create_stream mapped
\* by map_err and `?`, Ok(Box::new(chat_stream)).
OpenAiProvider_stream_chat_completion(built, client) ==
    LET openai_req == OpenAi_build_request(built)
    IN  IF ~openai_req.ok THEN Err(openai_req.err)
        ELSE IF ~client.ok THEN Err(OpenAi_map_err(client.err))
        ELSE Ok("stream")

(***************************************************************************)
(* retry.rs: RetryLayer and RetryProvider                                  *)
(***************************************************************************)
\* A std::time::Duration, kept as a whole number of microseconds.
Duration_from_micros(us) == us
Duration_from_millis(ms) == ms * 1000
Duration_from_secs(secs) == secs * 1000000

\* Duration::as_millis: the whole milliseconds of the duration; what is left
\* below a millisecond is dropped.
Duration_as_millis(d) == d \div 1000

\* RetryLayer::new(): 3 retries, 100 ms, 10 s, factor 2.0. The factor is kept
\* in tenths.
RetryLayer_new ==
    [max_retries |-> 3, initial_delay |-> Duration_from_millis(100),
     max_delay |-> Duration_from_secs(10), backoff_multiplier |-> 20]

\* The configurations the with_* setters give.
RetryConfigs ==
    { [RetryLayer_new EXCEPT !.max_retries = n] : n \in 0..MaxRetriesCfg }
    \cup { [RetryLayer_new EXCEPT !.max_retries = n,
                                   !.max_delay = Duration_from_millis(300)]
               : n \in 0..MaxRetriesCfg }
    \cup { [max_retries |-> n, initial_delay |-> Duration_from_millis(10),
            max_delay |-> Duration_from_secs(1), backoff_multiplier |-> 15]
               : n \in 0..MaxRetriesCfg }
    \cup { [max_retries |-> n, initial_delay |-> Duration_from_micros(1500),
            max_delay |-> Duration_from_millis(10), backoff_multiplier |-> 20]
               : n \in 0..MaxRetriesCfg }
    \cup { [max_retries |-> n, initial_delay |-> Duration_from_millis(50),
            max_delay |-> Duration_from_millis(40), backoff_multiplier |-> 10]
               : n \in 0..MaxRetriesCfg }

RECURSIVE Pow(_, _)
Pow(b, e) == IF e = 0 THEN 1 ELSE b * Pow(b, e - 1)

Min(a, b) == IF a <= b THEN a ELSE b

RECURSIVE GCD(_, _)
GCD(a, b) == IF b = 0 THEN a ELSE GCD(b, a % b)

\* Lines 58-61 without the min of line 61.
calculate_delay_uncapped(config, attempt) ==
    LET g == GCD(config.backoff_multiplier, 10)
        delay_ms == (Duration_as_millis(config.initial_delay)
                        * Pow(config.backoff_multiplier \div g, attempt))
                    \div Pow(10 \div g, attempt)
    IN  Duration_from_millis(delay_ms)

\* RetryLayer::calculate_delay: initial_delay.as_millis() * multiplier^attempt,
\* cut to whole milliseconds (`as u64`), made a Duration again, at most
\* max_delay.  The multiplier is kept in tenths and the power is taken of the
\* reduced fraction, which is the same number.
calculate_delay(config, attempt) ==
    LET g == GCD(config.backoff_multiplier, 10)
        delay_ms == (Duration_as_millis(config.initial_delay)
                        * Pow(config.backoff_multiplier \div g, attempt))
                    \div Pow(10 \div g, attempt)
    IN  Min(Duration_from_millis(delay_ms), config.max_delay)

\* The two operations RetryProvider hands to execute_with_retry.
RetryOps == {"chat_completion", "stream_chat_completion"}

\* What one call of the inner connector may return.
InnerOutcomes ==
    {Ok("response")} \cup {Err(ConnectorError(k)) : k \in ErrorKinds}

\* Line 102 with the budget off by one (attempt > max_retries).
GivesUp_off_by_one(config, attempt, e) ==
    ~is_retryable(e) \/ attempt > config.max_retries

\* Line 102: !e.is_retryable() || attempt >= self.config.max_retries
GivesUp(config, attempt, e) ==
    ~is_retryable(e) \/ attempt >= config.max_retries

InitRetry ==
    /\ builder = [plugins |-> <<>>]
    /\ executor = [built |-> FALSE, plugin_engine |-> <<>>]
    /\ drv = NoDrv
    /\ pc = "retry"
    /\ call = NoCall
    /\ batch = NoBatch
    /\ log = <<>>
    /\ ret = NoRet
    /\ assoc = NoAssoc
    /\ calls = NoCalls
    /\ delay = NoDelay
    /\ stack = NoStack
    /\ parked = NoParked
    /\ registry = NoRegistry
    /\ strat = NoStrat
    /\ \E c \in RetryConfigs :
           retry = [pc |-> "idle", config |-> c, op |-> "none", attempt |-> 0,
                    results |-> <<>>, sleeps |-> <<>>, ret |-> NoRet]

\* layered_chat_completion / layered_stream_chat_completion: line 96,
\* let mut attempt = 0.
Retry_call ==
    /\ retry.pc = "idle"
    /\ \E op \in RetryOps :
           retry' = [retry EXCEPT !.op = op, !.attempt = 0, !.pc = "operation"]
    /\ UNCHANGED <<builder, executor, drv, pc, call, batch, log, ret, assoc,
                   calls, delay, stack, strat, parked, registry>>

\* The provider a RetryProvider wraps: a connector of the caller's, or
\* where the configuration says so the OpenAiProvider.
InnerProvider == IF "inner" \in DOMAIN retry THEN retry.inner ELSE "connector"

\* Line 99: operation().await, one call of the inner connector.
Retry_operation ==
    /\ retry.pc = "operation"
    /\ InnerProvider = "connector"
    /\ \E o \in InnerOutcomes :
           retry' = [retry EXCEPT !.results = Append(@, o), !.pc = "match"]
    /\ UNCHANGED <<builder, executor, drv, pc, call, batch, log, ret, assoc,
                   calls, delay, stack, strat, parked, registry>>

\* The result of the attempt just made.
LastResult == retry.results[Len(retry.results)]

\* Line 100: Ok(result) => return Ok(result)
Retry_return_ok ==
    /\ retry.pc = "match"
    /\ LastResult.ok
    /\ retry' = [retry EXCEPT !.ret = Returned(LastResult), !.pc = "done"]
    /\ UNCHANGED <<builder, executor, drv, pc, call, batch, log, ret, assoc,
                   calls, delay, stack, strat, parked, registry>>

\* A loop that would keep the error of the first attempt and return it when
\* it gives up.
Retry_return_first_err ==
    /\ retry.pc = "match"
    /\ ~LastResult.ok
    /\ GivesUp(retry.config, retry.attempt, LastResult.err)
    /\ retry' = [retry EXCEPT !.ret = Returned(retry.results[1]), !.pc = "done"]
    /\ UNCHANGED <<builder, executor, drv, pc, call, batch, log, ret, assoc,
                   calls, delay, stack, strat, parked, registry>>

\* Lines 102-104: return Err(e)
Retry_return_err ==
    /\ retry.pc = "match"
    /\ ~LastResult.ok
    /\ GivesUp(retry.config, retry.attempt, LastResult.err)
    /\ retry' = [retry EXCEPT !.ret = Returned(LastResult), !.pc = "done"]
    /\ UNCHANGED <<builder, executor, drv, pc, call, batch, log, ret, assoc,
                   calls, delay, stack, strat, parked, registry>>

\* Line 106 run after the increment of line 115.
SleepDelay_after_increment(config, attempt) == calculate_delay(config, attempt + 1)

\* The delay slept before the next attempt (line 106).
SleepDelay(config, attempt) == calculate_delay(config, attempt)

\* Lines 106-114: the delay is computed and the sleep begins.
Retry_sleep ==
    /\ retry.pc = "match"
    /\ ~LastResult.ok
    /\ ~GivesUp(retry.config, retry.attempt, LastResult.err)
    /\ retry' = [retry EXCEPT
                    !.sleeps = Append(@, SleepDelay(retry.config, retry.attempt)),
                    !.pc = "sleeping"]
    /\ UNCHANGED <<builder, executor, drv, pc, call, batch, log, ret, assoc,
                   calls, delay, stack, strat, parked, registry>>

\* Line 115: the sleep is over, attempt += 1, and the loop goes round.
Retry_wake ==
    /\ retry.pc = "sleeping"
    /\ retry' = [retry EXCEPT !.attempt = @ + 1, !.pc = "operation"]
    /\ UNCHANGED <<builder, executor, drv, pc, call, batch, log, ret, assoc,
                   calls, delay, stack, strat, parked, registry>>

NextRetry ==
    \/ Retry_call
    \/ Retry_operation
    \/ Retry_return_ok
    \/ Retry_return_err
    \/ Retry_sleep
    \/ Retry_wake

\* One outer call of a RetryProvider around a connector that may fail.
SpecRetry == InitRetry /\ [][NextRetry]_vars

\* Line 99 where the inner provider is the OpenAiProvider: operation() is
\* self.inner.chat_completion(req) or self.inner.stream_chat_completion(req).
\* `raw` keeps what the builders and the client answered.
OpenAi_operation ==
    /\ retry.pc = "operation"
    /\ InnerProvider = "OpenAiProvider"
    /\ \E built \in BuildOutcomes : \E client \in ClientOutcomes :
           LET o == IF retry.op = "chat_completion"
                    THEN OpenAiProvider_chat_completion(built, client)
                    ELSE OpenAiProvider_stream_chat_completion(built, client)
           IN  retry' = [retry EXCEPT
                            !.results = Append(@, o),
                            !.raw = Append(@, [built |-> built, client |-> client]),
                            !.pc = "match"]
    /\ UNCHANGED <<builder, executor, drv, pc, call, batch, log, ret, assoc,
                   calls, delay, stack, strat, parked, registry>>

\* RetryLayer::layer(inner) with inner the OpenAiProvider or a connector of
\* the caller's.
InitOpenAi ==
    /\ builder = [plugins |-> <<>>]
    /\ executor = [built |-> FALSE, plugin_engine |-> <<>>]
    /\ drv = NoDrv
    /\ pc = "retry"
    /\ call = NoCall
    /\ batch = NoBatch
    /\ log = <<>>
    /\ ret = NoRet
    /\ assoc = NoAssoc
    /\ calls = NoCalls
    /\ delay = NoDelay
    /\ stack = NoStack
    /\ parked = NoParked
    /\ registry = NoRegistry
    /\ strat = NoStrat
    /\ \E c \in RetryConfigs : \E inner \in {"OpenAiProvider", "connector"} :
           retry = [pc |-> "idle", config |-> c, op |-> "none", attempt |-> 0,
                    results |-> <<>>, sleeps |-> <<>>, ret |-> NoRet,
                    inner |-> inner, raw |-> <<>>]

NextOpenAi ==
    \/ Retry_call
    \/ Retry_operation
    \/ OpenAi_operation
    \/ Retry_return_ok
    \/ Retry_return_err
    \/ Retry_sleep
    \/ Retry_wake

\* One outer call of a RetryProvider set directly around the OpenAiProvider,
\* or around a connector of the caller's.
SpecOpenAi == InitOpenAi /\ [][NextOpenAi]_vars

(***************************************************************************)
(* RetryLayer::calculate_delay on its own, for attempt numbers beyond the  *)
(* ones a retry loop of MaxRetriesCfg retries reaches.                     *)
(***************************************************************************)
InitDelay ==
    /\ builder = [plugins |-> <<>>]
    /\ executor = [built |-> FALSE, plugin_engine |-> <<>>]
    /\ drv = NoDrv
    /\ pc = "delay"
    /\ call = NoCall
    /\ batch = NoBatch
    /\ log = <<>>
    /\ ret = NoRet
    /\ assoc = NoAssoc
    /\ retry = NoRetry
    /\ calls = NoCalls
    /\ stack = NoStack
    /\ parked = NoParked
    /\ registry = NoRegistry
    /\ strat = NoStrat
    /\ \E c \in RetryConfigs : \E a \in 0..MaxAttempt :
           delay = [pc |-> "input", config |-> c, attempt |-> a, out |-> None]

\* self.config.calculate_delay(attempt)
Delay_calculate ==
    /\ delay.pc = "input"
    /\ delay' = [delay EXCEPT
                    !.out = Some(calculate_delay(delay.config, delay.attempt)),
                    !.pc = "done"]
    /\ UNCHANGED <<builder, executor, drv, pc, call, batch, log, ret, assoc,
                   retry, calls, stack, strat, parked, registry>>

NextDelay ==
    \/ Delay_calculate

SpecDelay == InitDelay /\ [][NextDelay]_vars

(***************************************************************************)
(* Layers: layer.rs, logging.rs, retry.rs, and RuntimeExecutorBuilder's    *)
(* layer() and json_strategy()                                             *)
(***************************************************************************)
\* LoggingLayer::new
LoggingLayer_new == [kind |-> "Logging", cfg |-> "[AI Core]"]

\* A layer whose provider keeps every default method of LayeredProvider.
ForwardingLayer == [kind |-> "Forwarding", cfg |-> <<>>]

\* RetryLayer::new().with_max_retries(n)
RetryLayer_with_max_retries(n) ==
    [kind |-> "Retry", cfg |-> [RetryLayer_new EXCEPT !.max_retries = n]]

\* The layers a caller attaches.
LayerKinds ==
    {LoggingLayer_new, ForwardingLayer}
    \cup { RetryLayer_with_max_retries(n) : n \in 0..MaxLayerRetries }

\* The k-th layer handed to the builder; n numbers the layers in the order
\* of their attachment.
MkLayer(k, n) == [kind |-> k.kind, cfg |-> k.cfg, n |-> n]

RECURSIVE Depth(_)
\* How many layers wrap the base connector.
Depth(provider) ==
    IF provider.kind = "Base" THEN 0 ELSE 1 + Depth(provider.inner)

RECURSIVE Layer_layer_innermost(_, _)
\* A layer() that would slip the new layer under the ones already there.
Layer_layer_innermost(layer, inner) ==
    IF inner.kind = "Base"
    THEN [kind |-> layer.kind, cfg |-> layer.cfg, n |-> layer.n, inner |-> inner]
    ELSE [inner EXCEPT !.inner = Layer_layer_innermost(layer, inner.inner)]

\* Layer::layer of LoggingLayer and RetryLayer: a provider that owns `inner`
\* and a copy of the layer's configuration.
Layer_layer(layer, inner) ==
    [kind |-> layer.kind, cfg |-> layer.cfg, n |-> layer.n, inner |-> inner]

\* RuntimeExecutorBuilder::layer
Builder_layer ==
    /\ pc = "building"
    /\ Depth(builder.provider) < MaxLayers
    /\ Len(calls) < MaxBuilderCalls
    /\ \E k \in LayerKinds :
           LET layer == MkLayer(k, Depth(builder.provider) + 1)
           IN  /\ builder' = [provider |-> Layer_layer(layer, builder.provider),
                              plugins |-> builder.plugins,
                              json_strategy |-> builder.json_strategy]
               /\ calls' = Append(calls, BuilderCall("layer", layer.n))
    /\ UNCHANGED <<executor, drv, pc, call, batch, log, ret, assoc, retry,
                   delay, stack, strat, parked, registry>>

\* RuntimeExecutorBuilder::json_strategy
Builder_json_strategy ==
    /\ pc = "building"
    /\ Len(calls) < MaxBuilderCalls
    /\ \E s \in Strategies :
           /\ builder' = [builder EXCEPT !.json_strategy = Some(s)]
           /\ calls' = Append(calls, BuilderCall("json_strategy", s))
    /\ UNCHANGED <<executor, drv, pc, call, batch, log, ret, assoc, retry,
                   delay, stack, strat, parked, registry>>

\* RuntimeExecutor::builder(connector), for a connector of any backend id.
InitBuild ==
    /\ \E id \in ProviderIds : builder = Builder_new(Connector(id))
    /\ executor = [built |-> FALSE, plugin_engine |-> <<>>]
    /\ drv = NoDrv
    /\ pc = "building"
    /\ call = NoCall
    /\ batch = NoBatch
    /\ log = <<>>
    /\ ret = NoRet
    /\ assoc = NoAssoc
    /\ retry = NoRetry
    /\ calls = NoCalls
    /\ delay = NoDelay
    /\ stack = NoStack
    /\ parked = NoParked
    /\ registry = NoRegistry
    /\ strat = NoStrat

NextBuild ==
    \/ Builder_plugin
    \/ Builder_layer
    \/ Builder_json_strategy
    \/ Builder_finish

\* Every order of builder calls, up to finish().
SpecBuild == InitBuild /\ [][NextBuild]_vars

(***************************************************************************)
(* One call of the composed provider, followed down through the layers     *)
(* to the base connector and back up                                       *)
(***************************************************************************)
\* The requests a caller hands to the composed provider.
ChatRequests == { ChatRequest("m0", p) : p \in ParamsInputs }

\* The streams a connector may open: items are Result<chunk, AiError>.
Streams ==
    { <<Ok("chunk1"), Ok("chunk2")>>,
      <<Ok("chunk1"), Err(ConnectorError("Network"))>>,
      <<Err(ConnectorError("Provider")), Ok("chunk2")>> }

\* What one call of the base connector may return.
BaseOutcomes(op) ==
    (IF op = "chat_completion"
     THEN {Ok(Response("srv", <<Choice(<<TextPart(<<1>>)>>, "Stop")>>, 2))}
     ELSE {Ok(st) : st \in Streams})
    \cup {Err(ConnectorError(k)) : k \in ConnectorErrorKinds}

\* How long one call of the base connector takes: 3 ms.
Latencies == {Duration_from_millis(3)}

\* One entry of the trace of a call.
Ev(ev, layer, data) == [ev |-> ev, layer |-> layer, data |-> data]

\* The activation of one layered provider: its own fields, the request it
\* was given, the Instant it took and its retry counter.
Frame(provider, req, start) ==
    [provider |-> provider, req |-> req, start |-> start, attempt |-> 0]

Last(seq) == seq[Len(seq)]
Front(seq) == SubSeq(seq, 1, Len(seq) - 1)

\* The provider about to be called: the executor's, or the inner of the
\* layered provider that is making the call.
Callee ==
    IF stack.frames = <<>> THEN executor.provider
    ELSE Last(stack.frames).provider.inner

\* The layered provider whose inner call has just returned.
Top == Last(stack.frames)

\* start.elapsed() read as the time of day.
Elapsed_since_epoch(start, now) == now

\* start.elapsed()
Elapsed(start, now) == now - start

\* A call of the composed provider through the Provider trait:
\* chat_completion(req), as generate_text makes it, or
\* stream_chat_completion(req).
Provider_call ==
    /\ pc = "ready"
    /\ stack = NoStack
    /\ \E op \in RetryOps : \E req \in ChatRequests :
           stack' = [pc |-> "call", op |-> op, req |-> req, arg |-> req,
                     frames |-> <<>>, res |-> None, trace |-> <<>>, now |-> 0,
                     ret |-> NoRet, polled |-> <<>>]
    /\ UNCHANGED <<builder, executor, drv, pc, call, batch, log, ret, assoc,
                   retry, calls, delay, strat, parked, registry>>

\* The request is passed by value: the connector owns the one it is given
\* and may change it.  What a connector that sets the stream flag on its
\* request leaves of it.
Connector_consumes(req) == [req EXCEPT !.stream = Some(TRUE)]

\* Provider::chat_completion / stream_chat_completion of the base connector.
Connector_call ==
    /\ stack.pc = "call"
    /\ Callee.kind = "Base"
    /\ \E o \in BaseOutcomes(stack.op) : \E d \in Latencies :
           stack' = [stack EXCEPT
                        !.trace = Append(@, Ev("base", 0, [req |-> stack.arg, res |-> o,
                                                           took |-> d])),
                        !.now = @ + d,
                        !.res = Some(o),
                        !.arg = Connector_consumes(stack.arg),
                        !.pc = "return"]
    /\ UNCHANGED <<builder, executor, drv, pc, call, batch, log, ret, assoc,
                   retry, calls, delay, strat, parked, registry>>

\* LayeredProvider's default layered_chat_completion /
\* layered_stream_chat_completion, up to the inner call.
Forwarding_call ==
    /\ stack.pc = "call"
    /\ Callee.kind = "Forwarding"
    /\ stack' = [stack EXCEPT
                    !.trace = Append(@, Ev("enter", Callee.n, stack.arg)),
                    !.frames = Append(@, Frame(Callee, stack.arg, stack.now)),
                    !.arg = stack.arg]
    /\ UNCHANGED <<builder, executor, drv, pc, call, batch, log, ret, assoc,
                   retry, calls, delay, strat, parked, registry>>

\* ... and from the inner call's return on.
Forwarding_result ==
    /\ stack.pc = "return"
    /\ stack.frames # <<>>
    /\ Top.provider.kind = "Forwarding"
    /\ stack' = [stack EXCEPT
                    !.trace = Append(@, Ev("exit", Top.provider.n, stack.res.val)),
                    !.frames = Front(@)]
    /\ UNCHANGED <<builder, executor, drv, pc, call, batch, log, ret, assoc,
                   retry, calls, delay, strat, parked, registry>>

\* LoggingProvider::layered_chat_completion lines 69-77 and
\* layered_stream_chat_completion lines 107-115: the request line, the
\* Instant, the inner call.
LoggingProvider_call ==
    /\ stack.pc = "call"
    /\ Callee.kind = "Logging"
    /\ stack' = [stack EXCEPT
                    !.trace = @ \o
                        <<Ev("enter", Callee.n, stack.arg),
                          Ev("log", Callee.n,
                             [line |-> "request", prefix |-> Callee.cfg,
                              op |-> stack.op, model |-> stack.arg.model,
                              messages |-> Len(stack.arg.messages)])>>,
                    !.frames = Append(@, Frame(Callee, stack.arg, stack.now)),
                    !.arg = stack.arg]
    /\ UNCHANGED <<builder, executor, drv, pc, call, batch, log, ret, assoc,
                   retry, calls, delay, strat, parked, registry>>

\* A LoggingProvider that would hand on every failure as a Provider error.
LoggingProvider_returns_masked(result) ==
    IF result.ok THEN result ELSE Err(ConnectorError("Provider"))

\* Lines 100 and 136: `result`, the inner call's Result as it came.
LoggingProvider_returns(result) == result

\* Lines 78-100 and 116-136: the elapsed time, the success or error line,
\* the result.
LoggingProvider_result ==
    /\ stack.pc = "return"
    /\ stack.frames # <<>>
    /\ Top.provider.kind = "Logging"
    /\ LET result == stack.res.val
           elapsed == Elapsed(Top.start, stack.now)
           out == LoggingProvider_returns(result)
       IN  stack' = [stack EXCEPT
                        !.trace = @ \o
                            <<Ev("log", Top.provider.n,
                                 [line |-> IF result.ok THEN "success" ELSE "error",
                                  prefix |-> Top.provider.cfg,
                                  op |-> stack.op, elapsed |-> elapsed]),
                              Ev("exit", Top.provider.n, out)>>,
                        !.res = Some(out),
                        !.frames = Front(@)]
    /\ UNCHANGED <<builder, executor, drv, pc, call, batch, log, ret, assoc,
                   retry, calls, delay, strat, parked, registry>>

\* RetryProvider::layered_chat_completion / layered_stream_chat_completion:
\* req_clone, attempt = 0, the first operation().
RetryProvider_call ==
    /\ stack.pc = "call"
    /\ Callee.kind = "Retry"
    /\ stack' = [stack EXCEPT
                    !.trace = Append(@, Ev("enter", Callee.n, stack.arg)),
                    !.frames = Append(@, Frame(Callee, stack.arg, stack.now)),
                    !.arg = stack.arg]
    /\ UNCHANGED <<builder, executor, drv, pc, call, batch, log, ret, assoc,
                   retry, calls, delay, strat, parked, registry>>

\* execute_with_retry lines 100-104: return Ok(result) / return Err(e).
RetryProvider_return ==
    /\ stack.pc = "return"
    /\ stack.frames # <<>>
    /\ Top.provider.kind = "Retry"
    /\ \/ stack.res.val.ok
       \/ /\ ~stack.res.val.ok
          /\ GivesUp(Top.provider.cfg, Top.attempt, stack.res.val.err)
    /\ stack' = [stack EXCEPT
                    !.trace = Append(@, Ev("exit", Top.provider.n, stack.res.val)),
                    !.frames = Front(@)]
    /\ UNCHANGED <<builder, executor, drv, pc, call, batch, log, ret, assoc,
                   retry, calls, delay, strat, parked, registry>>

\* A retry that would hand the inner provider the request the previous
\* attempt was given (the closure moving one request through all attempts)
\* instead of a fresh clone of req_clone.
RetryProvider_backoff_reusing ==
    /\ stack.pc = "return"
    /\ stack.frames # <<>>
    /\ Top.provider.kind = "Retry"
    /\ ~stack.res.val.ok
    /\ ~GivesUp(Top.provider.cfg, Top.attempt, stack.res.val.err)
    /\ LET d == SleepDelay(Top.provider.cfg, Top.attempt)
       IN  stack' = [stack EXCEPT
                        !.trace = Append(@, Ev("sleep", Top.provider.n, d)),
                        !.now = @ + d,
                        !.frames[Len(stack.frames)].attempt = @ + 1,
                        !.arg = stack.arg,
                        !.res = None,
                        !.pc = "call"]
    /\ UNCHANGED <<builder, executor, drv, pc, call, batch, log, ret, assoc,
                   retry, calls, delay, strat, parked, registry>>

\* execute_with_retry lines 106-115 and 99: the delay, the sleep,
\* attempt += 1, and operation() again with a clone of req_clone.
RetryProvider_backoff ==
    /\ stack.pc = "return"
    /\ stack.frames # <<>>
    /\ Top.provider.kind = "Retry"
    /\ ~stack.res.val.ok
    /\ ~GivesUp(Top.provider.cfg, Top.attempt, stack.res.val.err)
    /\ LET d == SleepDelay(Top.provider.cfg, Top.attempt)
       IN  stack' = [stack EXCEPT
                        !.trace = Append(@, Ev("sleep", Top.provider.n, d)),
                        !.now = @ + d,
                        !.frames[Len(stack.frames)].attempt = @ + 1,
                        !.arg = Top.req,
                        !.res = None,
                        !.pc = "call"]
    /\ UNCHANGED <<builder, executor, drv, pc, call, batch, log, ret, assoc,
                   retry, calls, delay, strat, parked, registry>>

\* The outermost provider has returned to its caller.
Provider_return ==
    /\ stack.pc = "return"
    /\ stack.frames = <<>>
    /\ stack' = [stack EXCEPT
                    !.ret = Returned(stack.res.val),
                    !.pc = IF stack.op = "stream_chat_completion" /\ stack.res.val.ok
                           THEN "streaming" ELSE "done"]
    /\ UNCHANGED <<builder, executor, drv, pc, call, batch, log, ret, assoc,
                   retry, calls, delay, strat, parked, registry>>

\* A caller that would open the stream again when an item is a retryable
\* error.
Stream_poll_reopening ==
    /\ stack.pc = "streaming"
    /\ Len(stack.polled) < Len(stack.ret.res.val)
    /\ LET item == stack.ret.res.val[Len(stack.polled) + 1]
       IN  stack' = [stack EXCEPT
                        !.polled = Append(@, item),
                        !.arg = stack.req,
                        !.pc = IF ~item.ok /\ is_retryable(item.err)
                               THEN "call" ELSE "streaming"]
    /\ UNCHANGED <<builder, executor, drv, pc, call, batch, log, ret, assoc,
                   retry, calls, delay, strat, parked, registry>>

\* The caller polls the next item of the stream it was handed.
Stream_poll ==
    /\ stack.pc = "streaming"
    /\ Len(stack.polled) < Len(stack.ret.res.val)
    /\ stack' = [stack EXCEPT
                    !.polled = Append(@, stack.ret.res.val[Len(stack.polled) + 1])]
    /\ UNCHANGED <<builder, executor, drv, pc, call, batch, log, ret, assoc,
                   retry, calls, delay, strat, parked, registry>>

NextLayers ==
    \/ Builder_layer
    \/ Builder_finish
    \/ Provider_call
    \/ Connector_call
    \/ Forwarding_call
    \/ Forwarding_result
    \/ LoggingProvider_call
    \/ LoggingProvider_result
    \/ RetryProvider_call
    \/ RetryProvider_return
    \/ RetryProvider_backoff
    \/ Provider_return
    \/ Stream_poll

\* A connector under up to MaxLayers layers, and one call through them.
SpecLayers == Init /\ [][NextLayers]_vars

(***************************************************************************)
(* strategy/json_output.rs: JsonOutputStrategy::apply                      *)
(***************************************************************************)
\* Message { role, content, name }
Message(role, content, name) == [role |-> role, content |-> content, name |-> name]

\* Message::user, Message::assistant, Message::system
Message_user(text) == Message("User", <<TextPart(text)>>, None)
Message_assistant(text) == Message("Assistant", <<TextPart(text)>>, None)
Message_system(text) == Message("System", <<TextPart(text)>>, None)

\* The messages a request is made of.
MessageInputs ==
    { Message_user("hello"),
      Message("User", <<TextPart("look"), ImagePart>>, Some("ann")),
      Message_assistant("hi"),
      Message_system("be brief") }

RECURSIVE SeqsUpTo(_, _)
\* The sequences over S of length at most n.
SeqsUpTo(S, n) ==
    IF n = 0 THEN {<<>>}
    ELSE LET shorter == SeqsUpTo(S, n - 1)
         IN  shorter \cup {Append(q, x) : q \in shorter, x \in S}

\* ChatCompletionRequest::new
ChatCompletionRequest_new(model, messages) ==
    [model |-> model, messages |-> messages, temperature |-> None,
     max_tokens |-> None, top_p |-> None, frequency_penalty |-> None,
     presence_penalty |-> None, stop |-> None, tools |-> None,
     response_format |-> None, stream |-> None, extra |-> <<>>]

\* The requests a strategy is applied to: fresh ones, and ones that carry
\* a response format and a token limit already.
StrategyRequests ==
    { ChatCompletionRequest_new("m0", ms) : ms \in SeqsUpTo(MessageInputs, MaxMessages) }
    \cup { [ChatCompletionRequest_new("m1", ms) EXCEPT
                !.response_format = Some([type |-> "Text"]),
                !.max_tokens = Some(16)]
               : ms \in SeqsUpTo(MessageInputs, MaxMessages) }

\* The JSON schemas a caller passes.
Schemas ==
    { [type |-> "object", properties |-> <<"name">>],
      [type |-> "array", properties |-> <<>>] }

\* ResponseFormat::JsonObject and ResponseFormat::JsonSchema { name, schema, strict }
JsonObject == [type |-> "JsonObject"]
JsonSchema(name, schema, strict) ==
    [type |-> "JsonSchema", name |-> name, schema |-> schema, strict |-> strict]

\* JsonModeStrategy::build_json_instruction: a fixed text around the
\* pretty-printed schema.
build_json_instruction(schema) ==
    <<"You must respond with valid JSON that matches this schema:", schema,
      "IMPORTANT: 1. ... 2. ... 3. ... 4. ...">>

\* What apply leaves behind: its Result and the request it was lent.
Applied(result, req) == [result |-> result, req |-> req]

\* A JsonSchemaStrategy::apply that would ask for strict mode regardless.
JsonSchemaStrategy_apply_always_strict(self, req, schema) ==
    Applied(Ok(<<>>),
            [req EXCEPT !.response_format = Some(JsonSchema("response", schema, TRUE))])

\* JsonSchemaStrategy::apply
JsonSchemaStrategy_apply(self, req, schema) ==
    Applied(Ok(<<>>),
            [req EXCEPT
                !.response_format = Some(JsonSchema("response", schema, self.strict))])

\* A push where line 153 has insert(0, ..).
insert_first_pushed(messages, msg) == Append(messages, msg)

\* Line 153: req.messages.insert(0, system_msg)
insert_first(messages, msg) == <<msg>> \o messages

UserMessages(messages) == {i \in 1..Len(messages) : messages[i].role = "User"}

\* Lines 156-160 without the rev(): the first user message.
find_last_user_unreversed(messages) ==
    CHOOSE i \in UserMessages(messages) : \A j \in UserMessages(messages) : i <= j

\* Lines 156-160: messages.iter_mut().rev().find(|m| m.role == Role::User),
\* where there is one.
find_last_user(messages) ==
    CHOOSE i \in UserMessages(messages) : \A j \in UserMessages(messages) : j <= i

\* Line 163: format!("\n\n{}", instruction)
AppendedText(instruction) == <<"\n\n">> \o instruction

\* JsonModeStrategy::apply
JsonModeStrategy_apply(self, req, schema) ==
    LET json_mode == [req EXCEPT !.response_format = Some(JsonObject)]
        instruction == build_json_instruction(schema)
    IN  IF self.use_system_message
        THEN Applied(Ok(<<>>),
                     [json_mode EXCEPT
                         !.messages =
                             insert_first(@, Message("System",
                                                     <<TextPart(instruction)>>,
                                                     None))])
        ELSE IF UserMessages(req.messages) # {}
        THEN Applied(Ok(<<>>),
                     [json_mode EXCEPT
                         !.messages[find_last_user(req.messages)].content =
                             Append(@, TextPart(AppendedText(instruction)))])
        ELSE Applied(Ok(<<>>),
                     [json_mode EXCEPT
                         !.messages =
                             Append(@, Message("User", <<TextPart(instruction)>>,
                                               None))])

\* JsonOutputStrategy::apply, dispatched on the strategy's type.
JsonOutputStrategy_apply(strategy, req, schema) ==
    IF strategy.name = "JsonSchemaStrategy"
    THEN JsonSchemaStrategy_apply(strategy, req, schema)
    ELSE JsonModeStrategy_apply(strategy, req, schema)

\* A backend id, a request and a schema; no strategy yet.
InitStrategy ==
    /\ builder = [plugins |-> <<>>]
    /\ executor = [built |-> FALSE, plugin_engine |-> <<>>]
    /\ drv = NoDrv
    /\ pc = "strategy"
    /\ call = NoCall
    /\ batch = NoBatch
    /\ log = <<>>
    /\ ret = NoRet
    /\ assoc = NoAssoc
    /\ retry = NoRetry
    /\ calls = NoCalls
    /\ delay = NoDelay
    /\ stack = NoStack
    /\ parked = NoParked
    /\ registry = NoRegistry
    /\ \E id \in ProviderIds : \E req \in StrategyRequests : \E schema \in Schemas :
           strat = [pc |-> "input", provider_id |-> id, req |-> req,
                    schema |-> schema, how |-> "none", strategy |-> None,
                    out |-> None]

\* detect_json_strategy(provider_id)
Strategy_detect ==
    /\ strat.pc = "input"
    /\ strat' = [strat EXCEPT
                    !.strategy = Some(detect_json_strategy(strat.provider_id)),
                    !.how = "detected",
                    !.pc = "chosen"]
    /\ UNCHANGED <<builder, executor, drv, pc, call, batch, log, ret, assoc,
                   retry, calls, delay, stack, parked, registry>>

\* JsonSchemaStrategy::new / with_strict, JsonModeStrategy::new /
\* with_system_message
Strategy_construct ==
    /\ strat.pc = "input"
    /\ \E s \in Strategies :
           strat' = [strat EXCEPT
                        !.strategy = Some(s),
                        !.how = "constructed",
                        !.pc = "chosen"]
    /\ UNCHANGED <<builder, executor, drv, pc, call, batch, log, ret, assoc,
                   retry, calls, delay, stack, parked, registry>>

\* strategy.apply(&mut req, &schema)
Strategy_apply ==
    /\ strat.pc = "chosen"
    /\ strat' = [strat EXCEPT
                    !.out = Some(JsonOutputStrategy_apply(strat.strategy.val,
                                                          strat.req, strat.schema)),
                    !.pc = "applied"]
    /\ UNCHANGED <<builder, executor, drv, pc, call, batch, log, ret, assoc,
                   retry, calls, delay, stack, parked, registry>>

NextStrategy ==
    \/ Strategy_detect
    \/ Strategy_construct
    \/ Strategy_apply

\* A strategy, detected or constructed, applied to a request.
SpecStrategy == InitStrategy /\ [][NextStrategy]_vars

(***************************************************************************)
(* executor.rs: RuntimeExecutor::generate_object                           *)
(***************************************************************************)
\* ObjectParams { messages, schema, max_tokens, temperature }
ObjectParams(messages, schema, max_tokens, temperature) ==
    [messages |-> messages, schema |-> schema, max_tokens |-> max_tokens,
     temperature |-> temperature]

\* The ObjectParams a caller passes.
ObjectParamsInputs ==
    { ObjectParams(<<Message_user("hello")>>, [type |-> "object", properties |-> <<"name">>],
                   None, None),
      ObjectParams(<<Message_system("be brief"), Message_user("hello"),
                     Message_assistant("hi")>>,
                   [type |-> "array", properties |-> <<>>], Some(16), Some(7)) }

\* ObjectResult { object, usage, model }
ObjectResult(object, usage, model) ==
    [object |-> object, usage |-> usage, model |-> model]

\* The ChatCompletionRequest literal of generate_object, lines 222-235.
ObjectChatRequest(model, params) ==
    [model |-> model, messages |-> params.messages,
     temperature |-> params.temperature, max_tokens |-> params.max_tokens,
     top_p |-> None, frequency_penalty |-> None, presence_penalty |-> None,
     stop |-> None, tools |-> None, response_format |-> None,
     stream |-> Some(FALSE), extra |-> <<>>]

\* serde_json::from_str::<serde_json::Value> on a text given as its sequence
\* of characters, for JSON made of numbers without a zero, strings without
\* escapes, arrays and objects; the literals true, false and null are left
\* out, and no text of the model spells one.
Whitespace == {" "}
Digits == {"1", "2", "3", "4", "5", "6", "7", "8", "9"}
Quote == "\""

RECURSIVE SkipWhitespace(_, _)
SkipWhitespace(s, i) ==
    IF i <= Len(s) /\ s[i] \in Whitespace THEN SkipWhitespace(s, i + 1) ELSE i

RECURSIVE EndOfDigits(_, _)
EndOfDigits(s, i) ==
    IF i <= Len(s) /\ s[i] \in Digits THEN EndOfDigits(s, i + 1) ELSE i

RECURSIVE ClosingQuote(_, _)
\* The index of the first quote at or after i; 0 when there is none.
ClosingQuote(s, i) ==
    IF i > Len(s) THEN 0
    ELSE IF s[i] = Quote THEN i ELSE ClosingQuote(s, i + 1)

Parsed(val, next) == [ok |-> TRUE, val |-> val, next |-> next]
NotParsed == [ok |-> FALSE]

\* A string whose opening quote is s[i].
ParseString(s, i) ==
    LET j == ClosingQuote(s, i + 1)
    IN  IF j = 0 THEN NotParsed
        ELSE Parsed(JsonValue("string", SubSeq(s, i + 1, j - 1)), j + 1)

RECURSIVE ParseValue(_, _)
RECURSIVE ParseElements(_, _, _)
RECURSIVE ParseMembers(_, _, _)

\* One value from s[from] on, after whitespace.
ParseValue(s, from) ==
    LET i == SkipWhitespace(s, from)
    IN  IF i > Len(s) THEN NotParsed
        ELSE IF s[i] \in Digits
        THEN LET j == EndOfDigits(s, i)
             IN  Parsed(JsonValue("number", SubSeq(s, i, j - 1)), j)
        ELSE IF s[i] = Quote THEN ParseString(s, i)
        ELSE IF s[i] = "["
        THEN LET k == SkipWhitespace(s, i + 1)
             IN  IF k <= Len(s) /\ s[k] = "]"
                 THEN Parsed(JsonValue("array", <<>>), k + 1)
                 ELSE ParseElements(s, i + 1, <<>>)
        ELSE IF s[i] = "{"
        THEN LET k == SkipWhitespace(s, i + 1)
             IN  IF k <= Len(s) /\ s[k] = "}"
                 THEN Parsed(JsonValue("object", <<>>), k + 1)
                 ELSE ParseMembers(s, i + 1, <<>>)
        ELSE NotParsed

\* The elements of an array from s[from] on, up to its closing bracket.
ParseElements(s, from, acc) ==
    LET e == ParseValue(s, from)
    IN  IF ~e.ok THEN NotParsed
        ELSE LET k == SkipWhitespace(s, e.next)
             IN  IF k > Len(s) THEN NotParsed
                 ELSE IF s[k] = "," THEN ParseElements(s, k + 1, Append(acc, e.val))
                 ELSE IF s[k] = "]"
                 THEN Parsed(JsonValue("array", Append(acc, e.val)), k + 1)
                 ELSE NotParsed

\* The members of an object from s[from] on, up to its closing brace.
ParseMembers(s, from, acc) ==
    LET k == SkipWhitespace(s, from)
    IN  IF k > Len(s) \/ s[k] # Quote THEN NotParsed
        ELSE LET key == ParseString(s, k)
             IN  IF ~key.ok THEN NotParsed
                 ELSE LET c == SkipWhitespace(s, key.next)
                      IN  IF c > Len(s) \/ s[c] # ":" THEN NotParsed
                          ELSE LET e == ParseValue(s, c + 1)
                               IN  IF ~e.ok THEN NotParsed
                                   ELSE LET n == SkipWhitespace(s, e.next)
                                            member == <<key.val.v, e.val>>
                                        IN  IF n > Len(s) THEN NotParsed
                                            ELSE IF s[n] = ","
                                            THEN ParseMembers(s, n + 1, Append(acc, member))
                                            ELSE IF s[n] = "}"
                                            THEN Parsed(JsonValue("object", Append(acc, member)),
                                                        n + 1)
                                            ELSE NotParsed

\* AiError::Serialization(#[from] serde_json::Error)
SerializationError == [kind |-> "Serialization", who |-> 0, msg |-> "serde_json"]

\* One value, then nothing but whitespace.
serde_json_from_str(s) ==
    LET r == ParseValue(s, 1)
    IN  IF r.ok /\ SkipWhitespace(s, r.next) > Len(s)
        THEN Ok(r.val)
        ELSE Err(SerializationError)

\* The responses the connector may give to a request for an object.
ObjectResponses ==
    { Response("srv", <<>>, 1),
      Response("srv", <<Choice(<<TextPart(<<"{">>), ImagePart, TextPart(<<" ", "}">>)>>,
                               "Stop")>>, 2),
      Response("srv", <<Choice(<<TextPart(<<"{", Quote, "a", Quote, ":", "[", "1", ",">>),
                                 TextPart(<<Quote, "b", Quote, "]", "}">>)>>, "Stop")>>, 3),
      Response("srv", <<Choice(<<TextPart(<<"h", "i">>)>>, "Stop")>>, 4),
      Response("srv", <<Choice(<<TextPart(<<"1", "2", " ", "x">>)>>, "Length")>>, 5),
      Response("srv", <<Choice(<<TextPart(<<"[", "1">>)>>, "Length"),
                        Choice(<<TextPart(<<"[", "1", "]">>)>>, "Stop")>>, 6),
      Response("srv", <<Choice(<<TextPart(<<"7">>)>>, "Stop"),
                        Choice(<<TextPart(<<"{">>)>>, "Length")>>, 7) }

\* What one chat_completion call of the connector may return to generate_object.
ObjectOutcomes ==
    {Ok(r) : r \in ObjectResponses}
    \cup {Err(ConnectorError(k)) : k \in ConnectorErrorKinds}

\* Lines 245-268: the first choice's text parsed into an ObjectResult.
ToObjectResult(response) ==
    IF response.choices = <<>> THEN Err(NoChoicesError)
    ELSE LET first_choice == response.choices[1]
             content == JoinText(first_choice.content)
             object == serde_json_from_str(content)
         IN  IF object.ok
             THEN Ok(ObjectResult(object.val, response.usage, response.model))
             ELSE Err(object.err)

\* A generate_object that would resolve the model through the plugin engine
\* first, as generate_text does.
GO_begin_resolving ==
    /\ pc = "ready"
    /\ \E m \in Models, p \in ObjectParamsInputs :
           LET ctx == RequestContext_new(Provider_info(executor.provider).id, m)
               ran == PluginEngine_resolve_model(executor.plugin_engine, m)
               model == IF ran.out.ok THEN ran.out.val ELSE m
               applied == JsonOutputStrategy_apply(executor.json_strategy,
                                                   ObjectChatRequest(model, p), p.schema)
           IN  /\ call' = [op |-> "generate_object", model |-> m, params |-> p,
                           chat_req |-> Some(applied.req), sent |-> <<>>,
                           conn |-> None, result |-> None]
               /\ log' = log \o <<DriverCall("resolve_model", ctx)>>
                             \o HookEvents("resolve_model", ctx, ran)
               /\ pc' = "object_chat_completion"
               /\ ret' = ret
    /\ UNCHANGED <<builder, executor, drv, batch, assoc, retry,
                   calls, delay, stack, strat, parked, registry>>

\* Lines 218-239: the request is built from the caller's model and params,
\* and the output strategy applied to it; an Err of apply is returned by `?`.
GO_begin ==
    /\ pc = "ready"
    /\ \E m \in Models, p \in ObjectParamsInputs :
           LET applied == JsonOutputStrategy_apply(executor.json_strategy,
                                                   ObjectChatRequest(m, p), p.schema)
           IN  /\ call' = [op |-> "generate_object", model |-> m, params |-> p,
                           chat_req |-> Some(applied.req), sent |-> <<>>,
                           conn |-> None, result |-> None]
               /\ IF applied.result.ok
                  THEN /\ pc' = "object_chat_completion"
                       /\ ret' = ret
                  ELSE /\ pc' = "done"
                       /\ ret' = Returned(Err(applied.result.err))
    /\ UNCHANGED <<builder, executor, drv, batch, log, assoc, retry,
                   calls, delay, stack, strat, parked, registry>>

\* Line 242: self.provider.chat_completion(chat_req), up to the await.
GO_chat_completion ==
    /\ pc = "object_chat_completion"
    /\ call' = [call EXCEPT !.sent = Append(call.sent, call.chat_req.val)]
    /\ log' = Append(log, Marker("chat_completion"))
    /\ pc' = "object_response"
    /\ UNCHANGED <<builder, executor, drv, batch, ret, assoc, retry,
                   calls, delay, stack, strat, parked, registry>>

\* A generate_object that would ask the connector again when the text it
\* got does not parse.
GO_response_reasking ==
    /\ pc = "object_response"
    /\ \E outcome \in ObjectOutcomes :
           LET r == IF outcome.ok THEN ToObjectResult(outcome.val) ELSE outcome
               again == ~r.ok /\ r.err.kind = "Serialization" /\ Len(call.sent) < 2
           IN  /\ call' = [call EXCEPT !.conn = Some(outcome),
                                       !.result = IF r.ok THEN Some(r.val) ELSE None]
               /\ ret' = IF again THEN ret ELSE Returned(r)
               /\ pc' = IF again THEN "object_chat_completion" ELSE "done"
    /\ UNCHANGED <<builder, executor, drv, batch, log, assoc, retry,
                   calls, delay, stack, strat, parked, registry>>

\* Lines 242-268: the connector's answer; its Err is returned by `?`, its
\* response is turned into an ObjectResult or into the error of doing so.
GO_response ==
    /\ pc = "object_response"
    /\ \E outcome \in ObjectOutcomes :
           LET r == IF outcome.ok THEN ToObjectResult(outcome.val) ELSE outcome
           IN  /\ call' = [call EXCEPT !.conn = Some(outcome),
                                       !.result = IF r.ok THEN Some(r.val) ELSE None]
               /\ ret' = Returned(r)
    /\ pc' = "done"
    /\ UNCHANGED <<builder, executor, drv, batch, log, assoc, retry,
                   calls, delay, stack, strat, parked, registry>>

generate_object ==
    \/ GO_begin
    \/ GO_chat_completion
    \/ GO_response

\* The bound on the plugins registered before a call of either kind.
MaxCallPlugins == 1

\* A builder on which plugin() and json_strategy() have been called, for a
\* connector of any backend id.
InitCalls ==
    /\ \E id \in ProviderIds :
       \E plugins \in PluginLists(1, MaxCallPlugins) :
       \E json_strategy \in {None} \cup {Some(s) : s \in Strategies} :
           /\ builder = [Builder_new(Connector(id)) EXCEPT
                             !.plugins = plugins, !.json_strategy = json_strategy]
           /\ calls = [i \in 1..Len(plugins) |-> BuilderCall("plugin", i)]
                          \o (IF json_strategy.some
                              THEN <<BuilderCall("json_strategy", json_strategy.val)>>
                              ELSE <<>>)
    /\ executor = [built |-> FALSE, plugin_engine |-> <<>>]
    /\ drv = NoDrv
    /\ pc = "building"
    /\ call = NoCall
    /\ batch = NoBatch
    /\ log = <<>>
    /\ ret = NoRet
    /\ assoc = NoAssoc
    /\ retry = NoRetry
    /\ delay = NoDelay
    /\ stack = NoStack
    /\ parked = NoParked
    /\ registry = NoRegistry
    /\ strat = NoStrat

NextCalls ==
    \/ Builder_finish
    \/ generate_text
    \/ generate_object

\* finish(), then one call of generate_text or of generate_object.
SpecCalls == InitCalls /\ [][NextCalls]_vars

(***************************************************************************)
(* Two calls on one executor: generate_text and generate_object take       *)
(* &self, so a caller may run them concurrently (executor.rs 101-207)      *)
(***************************************************************************)
\* The locals of a call while another call runs.
Parked(p, c, b, l, r) == [pc |-> p, call |-> c, batch |-> b, log |-> l, ret |-> r]

\* The plugin lists of the executors the two calls share.
SharedPluginLists ==
    { <<>>,
      <<MkPlugin([DefaultPlugin EXCEPT !.phase = "Post", !.rm = "m2", !.lt = "t2",
                                       !.tp = "trunc", !.tr = "trunc", !.ts = "wrap"], 1),
        MkPlugin([DefaultPlugin EXCEPT !.phase = "Pre", !.rm = "m1", !.lt = "t1",
                                       !.tp = "push", !.tr = "push", !.ts = "wrap"], 2)>>,
      <<MkPlugin([DefaultPlugin EXCEPT !.phase = "Post", !.re = "Err", !.oe = "Err"], 1)>> }

\* A switch that would leave the result of the running call where the call
\* taken up finds it: a result slot kept by the executor, not by the call.
Task_switch_sharing_result ==
    /\ pc # "building"
    /\ parked.pc # "off"
    /\ parked' = Parked(pc, call, batch, log, ret)
    /\ pc' = parked.pc
    /\ call' = IF "ctx" \in DOMAIN parked.call /\ "ctx" \in DOMAIN call
               THEN [parked.call EXCEPT !.result = call.result]
               ELSE parked.call
    /\ batch' = parked.batch
    /\ log' = parked.log
    /\ ret' = parked.ret
    /\ UNCHANGED <<builder, executor, drv, assoc, retry, calls, delay, stack, strat, registry>>

\* The running call is suspended at an await and the other call is polled:
\* each call's locals (model, params, ctx, result, position) are its own
\* future's, and the executor is borrowed by both.
Task_switch ==
    /\ pc # "building"
    /\ parked.pc # "off"
    /\ parked' = Parked(pc, call, batch, log, ret)
    /\ pc' = parked.pc
    /\ call' = parked.call
    /\ batch' = parked.batch
    /\ log' = parked.log
    /\ ret' = parked.ret
    /\ UNCHANGED <<builder, executor, drv, assoc, retry, calls, delay, stack, strat, registry>>

\* A builder on which plugin() has been called, and two callers that have
\* not called yet.
InitConcurrent ==
    /\ \E plugins \in SharedPluginLists :
           /\ builder = [Builder_new(Connector(ProviderId)) EXCEPT !.plugins = plugins]
           /\ calls = [i \in 1..Len(plugins) |-> BuilderCall("plugin", i)]
    /\ executor = [built |-> FALSE, plugin_engine |-> <<>>]
    /\ drv = NoDrv
    /\ pc = "building"
    /\ call = NoCall
    /\ batch = NoBatch
    /\ log = <<>>
    /\ ret = NoRet
    /\ assoc = NoAssoc
    /\ retry = NoRetry
    /\ delay = NoDelay
    /\ stack = NoStack
    /\ strat = NoStrat
    /\ parked = Parked("ready", NoCall, NoBatch, <<>>, NoRet)
    /\ registry = NoRegistry

NextConcurrent ==
    \/ Builder_finish
    \/ generate_text
    \/ generate_object
    \/ Task_switch

\* finish(), then two calls of generate_text or generate_object, interleaved
\* at their awaits.
SpecConcurrent == InitConcurrent /\ [][NextConcurrent]_vars

(***************************************************************************)
(* generate_text on an executor whose connector is a RetryProvider: the    *)
(* chat_completion of line 164 is one execute_with_retry (retry.rs 96-118) *)
(***************************************************************************)
\* Line 164, through RetryProvider::chat_completion and
\* layered_chat_completion: the request is built and execute_with_retry
\* begins, attempt = 0.
GT_chat_completion_call ==
    /\ pc = "chat_completion"
    /\ executor.provider.kind = "Retry"
    /\ call' = [call EXCEPT
                   !.chat_req = Some(ChatRequest(call.resolved_model.val,
                                                 call.transformed_params.val))]
    /\ retry' = [pc |-> "operation", config |-> executor.provider.cfg,
                 op |-> "chat_completion", attempt |-> 0, results |-> <<>>,
                 sleeps |-> <<>>, ret |-> NoRet]
    /\ log' = Append(log, Marker("chat_completion"))
    /\ pc' = "await_connector"
    /\ UNCHANGED <<builder, executor, drv, batch, ret, assoc, calls, delay,
                   stack, strat, parked, registry>>

\* Line 164: the await is over; what execute_with_retry returned is matched.
GT_chat_completion_return ==
    /\ pc = "await_connector"
    /\ retry.pc = "done"
    /\ \E r \in Responses :
           call' = [call EXCEPT
                       !.conn = Some(IF retry.ret.res.ok THEN Ok(r)
                                     ELSE retry.ret.res)]
    /\ pc' = "match_result"
    /\ UNCHANGED <<builder, executor, drv, batch, log, ret, assoc, retry, calls,
                   delay, stack, strat, parked, registry>>

\* A builder on which layer(RetryLayer) and plugin() have been called.
InitTerminate ==
    /\ \E n \in 0..MaxLayerRetries : \E plugins \in SharedPluginLists :
           /\ builder =
                  [Builder_new(Layer_layer(MkLayer(RetryLayer_with_max_retries(n), 1),
                                           Connector(ProviderId)))
                      EXCEPT !.plugins = plugins]
           /\ calls = <<BuilderCall("layer", 1)>>
                          \o [i \in 1..Len(plugins) |-> BuilderCall("plugin", i)]
    /\ executor = [built |-> FALSE, plugin_engine |-> <<>>]
    /\ drv = NoDrv
    /\ pc = "building"
    /\ call = NoCall
    /\ batch = NoBatch
    /\ log = <<>>
    /\ ret = NoRet
    /\ assoc = NoAssoc
    /\ retry = NoRetry
    /\ delay = NoDelay
    /\ stack = NoStack
    /\ strat = NoStrat
    /\ parked = NoParked
    /\ registry = NoRegistry

\* The steps of one generate_text call: each is a hook invocation, a batch
\* join, an inner connector call or a sleep coming to its end.
CallSteps ==
    \/ GT_resolve_model
    \/ GT_transform_params
    \/ GT_on_request_start
    \/ GT_request_start_hook
    \/ GT_request_start_joined
    \/ GT_chat_completion_call
    \/ Retry_operation
    \/ Retry_return_ok
    \/ Retry_return_err
    \/ Retry_sleep
    \/ Retry_wake
    \/ GT_chat_completion_return
    \/ GT_convert
    \/ GT_transform_result
    \/ GT_on_request_end
    \/ GT_request_end_hook
    \/ GT_request_end_joined
    \/ GT_on_error
    \/ GT_error_hook
    \/ GT_error_joined

NextTerminate ==
    \/ Builder_finish
    \/ GT_begin
    \/ CallSteps

\* finish(), then one generate_text call every step of which terminates:
\* hooks, inner connector calls and sleeps are futures that complete, and the
\* caller keeps polling the call.
SpecTerminate == InitTerminate /\ [][NextTerminate]_vars /\ WF_vars(CallSteps)

(***************************************************************************)
(* aidale-plugin/src/tool_use.rs: FunctionTool and ToolRegistry            *)
(***************************************************************************)
\* FunctionTool::new(name, description, parameters, executor)
FunctionTool_new(name, description, parameters) ==
    [impl |-> "FunctionTool", name |-> name, description |-> description,
     parameters |-> parameters]

\* FunctionTool::definition
FunctionTool_definition(self) ==
    Tool(self.name, self.description, self.parameters)

\* A ToolExecutor of the caller's own: a type that is not FunctionTool.
EchoExecutor == [impl |-> "EchoExecutor"]

\* Arc::new(tool) as Arc<dyn ToolExecutor>: the value the registry keeps.
ArcDynToolExecutor == "Arc<dyn ToolExecutor>"
Arc_new(tool) == [impl |-> ArcDynToolExecutor, ptr |-> tool]

\* `value as &dyn Any`, then downcast_ref::<T>(): Some exactly when the type
\* of the value the reference points at is T.
Any_downcast_ref(value, T) ==
    IF value.impl = T THEN Some(value) ELSE None

\* Line 112: (tool as &dyn std::any::Any).downcast_ref::<FunctionTool>(),
\* where tool is the map's &Arc<dyn ToolExecutor>.
Registry_downcast(tool) == Any_downcast_ref(tool, "FunctionTool")

\* format!("Tool: {}", name)
FormatToolDescription(name) == <<"Tool: ", name>>

\* serde_json::json!({})
EmptyJsonObject == JsonValue("object", <<>>)

\* Lines 109-122: the closure of definitions(), on one entry of the map.
Registry_definition(name, tool) ==
    LET func_tool == Registry_downcast(tool)
    IN  IF func_tool.some
        THEN FunctionTool_definition(func_tool.val)
        ELSE Tool(name, FormatToolDescription(name), EmptyJsonObject)

\* The names tools are registered under, and the tools registered.
ToolNames == {"add", "extract_person_info", "echo"}
ToolInputs ==
    { Arc_new(FunctionTool_new("add", <<"Add two numbers">>,
                  JsonValue("object", << <<"type", JsonValue("string", <<"object">>)>> >>))),
      Arc_new(FunctionTool_new("extract_person_info",
                  <<"Extract person information and return in structured format">>,
                  JsonValue("object", << <<"title", JsonValue("string", <<"PersonInfo">>)>> >>))),
      Arc_new(EchoExecutor) }

\* The bound on the entries of the registry's map.
MaxTools == 3

\* The orders in which a HashMap of these keys may be iterated.
IterationOrders(keys) ==
    { order \in [1..Cardinality(keys) -> keys] :
          \A i, j \in DOMAIN order : i # j => order[i] # order[j] }

\* ToolRegistry::new
InitTools ==
    /\ registry = [pc |-> "on", tools |-> [name \in {} |-> EchoExecutor], defs |-> None]
    /\ builder = [plugins |-> <<>>]
    /\ executor = [built |-> FALSE, plugin_engine |-> <<>>]
    /\ drv = NoDrv
    /\ pc = "tools"
    /\ call = NoCall
    /\ batch = NoBatch
    /\ log = <<>>
    /\ ret = NoRet
    /\ assoc = NoAssoc
    /\ retry = NoRetry
    /\ calls = NoCalls
    /\ delay = NoDelay
    /\ stack = NoStack
    /\ strat = NoStrat
    /\ parked = NoParked

\* The bound on the register calls made on one registry.
MaxRegisterCalls == 4

\* HashMap::entry(name).or_insert(tool): an entry the map has is kept.
HashMap_or_insert(map, name, tool) ==
    [k \in DOMAIN map \cup {name} |-> IF k \in DOMAIN map THEN map[k] ELSE tool]

\* HashMap::insert(name, tool): the entry of name is tool, whether or not the
\* map had an entry of that name.
HashMap_insert(map, name, tool) ==
    [k \in DOMAIN map \cup {name} |-> IF k = name THEN tool ELSE map[k]]

\* ToolRegistry::register: self.tools.insert(name, tool).  The calls made are
\* recorded in `calls`.
Registry_register ==
    /\ registry.pc = "on"
    /\ Len(calls) < MaxRegisterCalls
    /\ \E name \in ToolNames : \E tool \in ToolInputs :
           /\ name \in DOMAIN registry.tools
                  \/ Cardinality(DOMAIN registry.tools) < MaxTools
           /\ registry' = [registry EXCEPT
                  !.tools = HashMap_insert(registry.tools, name, tool),
                  !.defs = None]
           /\ calls' = Append(calls, [op |-> "register", name |-> name, tool |-> tool])
    /\ UNCHANGED <<builder, executor, drv, pc, call, batch, log, ret, assoc,
                   retry, delay, stack, strat, parked>>

\* ToolRegistry::definitions: the map is iterated in an order of its own and
\* each entry turned into a Tool.
Registry_definitions ==
    /\ registry.pc = "on"
    /\ \E order \in IterationOrders(DOMAIN registry.tools) :
           registry' = [registry EXCEPT !.defs =
               Some([i \in DOMAIN order |->
                        Registry_definition(order[i], registry.tools[order[i]])])]
    /\ UNCHANGED <<builder, executor, drv, pc, call, batch, log, ret, assoc,
                   retry, calls, delay, stack, strat, parked>>

NextTools ==
    \/ Registry_register
    \/ Registry_definitions

\* A registry, tools registered in it, and calls of definitions().
SpecTools == InitTools /\ [][NextTools]_vars

(***************************************************************************)
(* aidale-plugin/src/tool_use.rs: ToolUsePlugin                            *)
(***************************************************************************)
\* ToolUsePluginConfig::default(): auto_execute true, max_rounds 3.
ToolUsePluginConfig_default == [auto_execute |-> TRUE, max_rounds |-> 3]

\* The configurations with_config is given.
ToolUsePluginConfigs ==
    {ToolUsePluginConfig_default,
     [ToolUsePluginConfig_default EXCEPT !.auto_execute = FALSE]}

\* ToolUsePlugin::with_config(registry, config); ToolUsePlugin::new(registry)
\* is with_config(registry, ToolUsePluginConfig::default()).  The registry is
\* the map of the Arc<ToolRegistry> the plugin holds.
ToolUsePlugin_with_config(tools, config) == [registry |-> tools, config |-> config]

\* ToolUsePlugin::name and ToolUsePlugin::enforce
ToolUsePlugin_name(self) == "tool_use"
ToolUsePlugin_enforce(self) == "Pre"

\* self.registry.definitions(), the map iterated in the given order.
ToolRegistry_definitions(tools, order) ==
    [i \in DOMAIN order |-> Registry_definition(order[i], tools[order[i]])]

\* An add_tools_to_params that would keep the caller's tools and put the
\* registry's after them.
ToolUsePlugin_add_tools_to_params_merging(tools, params) ==
    IF tools # <<>>
    THEN [params EXCEPT !.tools =
             Some((IF params.tools.some THEN params.tools.val ELSE <<>>) \o tools)]
    ELSE params

\* ToolUsePlugin::add_tools_to_params, with tools what
\* self.registry.definitions() returned.
ToolUsePlugin_add_tools_to_params(tools, params) ==
    IF tools # <<>> THEN [params EXCEPT !.tools = Some(tools)] ELSE params

\* ToolUsePlugin::process_tool_calls: the result is returned whatever its
\* finish reason, the configuration and its tool calls are; the last branch
\* only writes a debug line.
ToolUsePlugin_process_tool_calls(self, result) ==
    IF result.finish_reason # "ToolCalls" THEN Ok(result)
    ELSE IF ~self.config.auto_execute THEN Ok(result)
    ELSE IF ~result.tool_calls.some \/ result.tool_calls.val = <<>> THEN Ok(result)
    ELSE Ok(result)

\* ContentPart::ToolCall { id, name, arguments }
ToolCall(id, name, arguments) ==
    [part |-> "ToolCall", id |-> id, name |-> name, arguments |-> arguments]

\* The results transform_result is handed: with and without tool calls,
\* finished for ToolCalls or otherwise.
ToolResultInputs ==
    ResultInputs
    \cup { [TextResult(<<>>, reason, 3, "m0") EXCEPT !.tool_calls = tc] :
              reason \in {"ToolCalls", "Stop"},
              tc \in {None, Some(<<>>),
                      Some(<<ToolCall("call_1", "add", JsonValue("object", <<>>))>>)} }

\* The registries a plugin is built over: every map a sequence of register
\* calls leaves.
RegistryMaps ==
    UNION { [names -> ToolInputs] :
              names \in {n \in SUBSET ToolNames : Cardinality(n) <= MaxTools} }

NoHook == [hook |-> "none"]

\* ToolUsePlugin::with_config over a registry, before any hook is called.
InitToolUse ==
    /\ builder = [plugins |-> <<>>]
    /\ executor = [built |-> FALSE, plugin_engine |-> <<>>]
    /\ drv = NoDrv
    /\ pc = "tool_use"
    /\ batch = NoBatch
    /\ log = <<>>
    /\ ret = NoRet
    /\ assoc = NoAssoc
    /\ retry = NoRetry
    /\ calls = NoCalls
    /\ delay = NoDelay
    /\ stack = NoStack
    /\ strat = NoStrat
    /\ parked = NoParked
    /\ call = NoHook
    /\ \E tools \in RegistryMaps : \E config \in ToolUsePluginConfigs :
           registry = [pc |-> "plugin",
                       plugin |-> ToolUsePlugin_with_config(tools, config)]

\* plugin.enforce(), as PluginEngine::new calls it.
ToolUse_enforce ==
    /\ registry.pc = "plugin"
    /\ call = NoHook
    /\ call' = [hook |-> "enforce"]
    /\ ret' = [returned |-> TRUE, res |-> ToolUsePlugin_enforce(registry.plugin)]
    /\ UNCHANGED <<builder, executor, drv, pc, batch, log, assoc, retry, calls,
                   delay, stack, strat, parked, registry>>

\* plugin.transform_params(params, ctx): Ok(self.add_tools_to_params(params)).
\* `defs` keeps what definitions() returned inside the call.
ToolUse_transform_params ==
    /\ registry.pc = "plugin"
    /\ call = NoHook
    /\ \E params \in ParamsInputs :
       \E order \in IterationOrders(DOMAIN registry.plugin.registry) :
           LET tools == ToolRegistry_definitions(registry.plugin.registry, order)
           IN  /\ call' = [hook |-> "transform_params", input |-> params,
                           defs |-> tools]
               /\ ret' = [returned |-> TRUE,
                          res |-> Ok(ToolUsePlugin_add_tools_to_params(tools, params))]
    /\ UNCHANGED <<builder, executor, drv, pc, batch, log, assoc, retry, calls,
                   delay, stack, strat, parked, registry>>

\* plugin.transform_result(result, ctx): self.process_tool_calls(result).await
ToolUse_transform_result ==
    /\ registry.pc = "plugin"
    /\ call = NoHook
    /\ \E result \in ToolResultInputs :
           /\ call' = [hook |-> "transform_result", input |-> result]
           /\ ret' = [returned |-> TRUE,
                      res |-> ToolUsePlugin_process_tool_calls(registry.plugin, result)]
    /\ UNCHANGED <<builder, executor, drv, pc, batch, log, assoc, retry, calls,
                   delay, stack, strat, parked, registry>>

NextToolUse ==
    \/ ToolUse_enforce
    \/ ToolUse_transform_params
    \/ ToolUse_transform_result

\* One hook call on a ToolUsePlugin over a registry.
SpecToolUse == InitToolUse /\ [][NextToolUse]_vars

(***************************************************************************)
(* Properties                                                              *)
(***************************************************************************)
Engine == executor.plugin_engine
Names(plugins) == [i \in 1..Len(plugins) |-> plugins[i].name]
VisitedNames(visited) == [i \in 1..Len(visited) |-> visited[i].plugin]
IsPrefix(s, t) == Len(s) <= Len(t) /\ s = SubSeq(t, 1, Len(s))
ChainOps == {"resolve_model", "load_template", "transform_params",
             "transform_result", "apply_stream_transforms"}

\* C1: the engine's list is the registered list stably sorted by phase: the
\* same plugins, every Pre before every Normal before every Post, and two
\* plugins of one phase in registration order; and every sequential driver
\* (resolve_model, load_template, transform_params, transform_result,
\* apply_stream_transforms) invokes the plugins along this list, from its
\* first element on, without skipping or reordering.
C1_PhaseOrder ==
    executor.built =>
        /\ Len(Engine) = Len(builder.plugins)
        /\ \A q \in 1..Len(builder.plugins) :
               \E i \in 1..Len(Engine) : Engine[i] = builder.plugins[q]
        /\ \A i, j \in 1..Len(Engine) :
               i < j =>
                   /\ PhaseKey(Engine[i].phase) <= PhaseKey(Engine[j].phase)
                   /\ Engine[i].phase = Engine[j].phase
                          => Engine[i].name < Engine[j].name
        /\ drv.op \in ChainOps =>
               IsPrefix(VisitedNames(drv.visited), Names(Engine))
        /\ drv.op = "apply_stream_transforms" =>
               Len(drv.visited) = Len(Engine)

\* C1 witness: an engine of three plugins registered Post, Pre, Pre, which
\* the sort had to reorder, and a chain that visited all three.
C1_Witness ==
    /\ executor.built
    /\ Len(Engine) = 3
    /\ Names(Engine) = <<2, 3, 1>>
    /\ Engine[1].phase = "Pre" /\ Engine[2].phase = "Pre"
    /\ Engine[3].phase = "Post"
    /\ drv.op = "transform_params"
    /\ Len(drv.visited) = 3

SuccessStages ==
    <<"resolve_model", "transform_params", "on_request_start",
      "chat_completion", "transform_result", "on_request_end">>
StageIndex(stage) == CHOOSE k \in 1..Len(SuccessStages) : SuccessStages[k] = stage
Markers(l) ==
    LET m == SelectSeq(l, LAMBDA e : e.plugin = 0)
    IN  [i \in 1..Len(m) |-> m[i].stage]
HooksOf(l, stage) ==
    SelectSeq(l, LAMBDA e : e.plugin # 0 /\ e.stage = stage)
HookNames(l, stage) ==
    LET h == HooksOf(l, stage) IN [i \in 1..Len(h) |-> h[i].plugin]
Succeeded == ret.returned /\ ret.res.ok
Failed == ret.returned /\ ~ret.res.ok

\* C2: when generate_text returns Ok, the drivers and the connector were
\* called in the order resolve_model, transform_params, on_request_start,
\* chat_completion, transform_result, on_request_end, each exactly once;
\* every hook invocation lies inside its own stage, no stage began before
\* the one before it had ended with Ok: every hook that ran returned Ok,
\* and each transform chain and each parallel batch ran the hook of every
\* plugin of the engine exactly once.
C2_LifecycleOrder ==
    Succeeded =>
        /\ Markers(log) = SuccessStages
        /\ \A i, j \in 1..Len(log) :
               i < j => StageIndex(log[i].stage) <= StageIndex(log[j].stage)
        /\ \A i \in 1..Len(log) : log[i].ok
        /\ IsPrefix(HookNames(log, "resolve_model"), Names(Engine))
        /\ HookNames(log, "transform_params") = Names(Engine)
        /\ HookNames(log, "transform_result") = Names(Engine)
        /\ HookNames(log, "on_request_start") = Names(Engine)
        /\ HookNames(log, "on_request_end") = Names(Engine)
        /\ HooksOf(log, "chat_completion") = <<>>

\* C2 witness: a successful call through an engine of three plugins, one of
\* which resolved the model.
C2_Witness ==
    /\ Succeeded
    /\ Len(Engine) = 3
    /\ call.resolved_model.val # call.model
    /\ Len(HookNames(log, "resolve_model")) = 2

PreConnectorStages == {"resolve_model", "transform_params", "on_request_start"}
ConnectorCalled == \E i \in 1..Len(log) : log[i].stage = "chat_completion"

\* C3: a hook of resolve_model, transform_params or on_request_start that
\* fails is the last thing the call does: the connector is not called, no
\* later stage runs, and the call has returned that plugin's error. Hence a
\* call that reached the connector went through no failing hook: no plugin
\* of the engine fails transform_params or on_request_start.
C3_AbortBeforeConnector ==
    /\ \A i \in 1..Len(log) :
           (log[i].stage \in PreConnectorStages /\ ~log[i].ok) =>
               /\ i = Len(log)
               /\ ~ConnectorCalled
               /\ pc = "done"
               /\ ~call.conn.some
               /\ Failed
               /\ ret.res.err = [kind |-> "Plugin", who |-> log[i].plugin,
                                 msg |-> log[i].stage]
    /\ ConnectorCalled =>
           \A i \in 1..Len(Engine) :
               Engine[i].tp # "Err" /\ Engine[i].rs = "Ok"

\* C3 witness: on_request_start failed in an engine of three plugins after
\* another plugin's on_request_start had completed.
C3_Witness ==
    /\ pc = "done"
    /\ Len(Engine) = 3
    /\ Len(HooksOf(log, "on_request_start")) = 2
    /\ Failed
    /\ ret.res.err.msg = "on_request_start"

\* C4: when the connector's chat_completion failed, generate_text returns
\* exactly the connector's error, also when on_error hooks failed.
C4_ConnectorErrorKept ==
    (pc = "done" /\ call.conn.some /\ ~call.conn.val.ok) =>
        /\ Failed
        /\ ret.res = Err(call.conn.val.err)
        /\ ret.res.err.who = 0

\* C4 witness: the connector failed and an on_error hook failed after another
\* plugin's on_error hook had completed.
C4_Witness ==
    /\ pc = "done"
    /\ call.conn.some /\ ~call.conn.val.ok
    /\ \E i \in 1..Len(log) : log[i].stage = "on_error" /\ ~log[i].ok
    /\ \E i \in 1..Len(log) :
           log[i].stage = "on_error" /\ log[i].ok /\ log[i].plugin # 0

\* The first-match answer computed from the plugins' declared hook results.
SomeAt(plugins, fld) == {i \in 1..Len(plugins) : plugins[i][fld] \notin {"None", "Err"}}
ErrBefore(plugins, fld, n) == \E i \in 1..n : plugins[i][fld] = "Err"
FirstSome(plugins, fld) ==
    CHOOSE i \in SomeAt(plugins, fld) : \A j \in SomeAt(plugins, fld) : i <= j

\* C5: where no plugin fails before the first Some, resolve_model returns the
\* value of the first plugin, in engine order, that returns Some, and the
\* model id it was given when every plugin returns None; load_template
\* returns the first Some, and None when every plugin returns None.
C5_FirstMatch ==
    /\ drv.op = "resolve_model" =>
           /\ (SomeAt(Engine, "rm") # {}
                   /\ ~ErrBefore(Engine, "rm", FirstSome(Engine, "rm")))
                  => /\ drv.out.ok
                     /\ drv.out.val = Engine[FirstSome(Engine, "rm")].rm
           /\ (\A i \in 1..Len(Engine) : Engine[i].rm = "None")
                  => drv.out.ok /\ drv.out.val = drv.arg
    /\ drv.op = "load_template" =>
           /\ (SomeAt(Engine, "lt") # {}
                   /\ ~ErrBefore(Engine, "lt", FirstSome(Engine, "lt")))
                  => /\ drv.out.ok
                     /\ drv.out.val = Some(Engine[FirstSome(Engine, "lt")].lt)
           /\ (\A i \in 1..Len(Engine) : Engine[i].lt = "None")
                  => drv.out.ok /\ drv.out.val = None

\* C5 witness: the plugins return (None, Some("m2"), Some("m1")) in engine
\* order and resolve_model gave "m2".
C5_Witness ==
    /\ drv.op = "resolve_model"
    /\ Len(Engine) = 3
    /\ Engine[1].rm = "None" /\ Engine[2].rm = "m2" /\ Engine[3].rm = "m1"
    /\ drv.out = Ok("m2")

\* The hook of plugin p that a sequential chain calls, and its failure flag.
ChainHook(op, p, v) ==
    IF op = "transform_params" THEN Plugin_transform_params(p, v)
    ELSE Plugin_transform_result(p, v)
ChainFails(op, p) ==
    IF op = "transform_params" THEN p.tp = "Err" ELSE p.tr = "Err"
FailingAt(op, plugins) == {i \in 1..Len(plugins) : ChainFails(op, plugins[i])}
FirstFailing(op, plugins) ==
    CHOOSE i \in FailingAt(op, plugins) : \A j \in FailingAt(op, plugins) : i <= j

\* C6: transform_params and transform_result invoke the plugins in engine
\* order, the first with the value passed in and each next one with the
\* output of the one before; if plugin k is the first that fails, exactly the
\* plugins 1..k were invoked, each once, plugin k still received what the
\* plugins before it had made, and the driver returns plugin k's error;
\* if none fails every plugin was invoked and the last output is returned.
C6_SequentialChain ==
    drv.op \in {"transform_params", "transform_result"} =>
        LET n == Len(drv.visited)
        IN  /\ IsPrefix(VisitedNames(drv.visited), Names(Engine))
            /\ n > 0 => drv.visited[1].arg = drv.arg
            /\ \A i \in 2..n :
                   /\ ChainHook(drv.op, Engine[i - 1], drv.visited[i - 1].arg).ok
                   /\ drv.visited[i].arg =
                          ChainHook(drv.op, Engine[i - 1], drv.visited[i - 1].arg).val
            /\ IF FailingAt(drv.op, Engine) # {}
               THEN /\ n = FirstFailing(drv.op, Engine)
                    /\ ~drv.out.ok
                    /\ drv.out.err = [kind |-> "Plugin", who |-> Engine[n].name,
                                      msg |-> drv.op]
               ELSE /\ n = Len(Engine)
                    /\ drv.out.ok
                    /\ drv.out.val =
                           IF n = 0 THEN drv.arg
                           ELSE ChainHook(drv.op, Engine[n], drv.visited[n].arg).val

\* C6 witness: in an engine of three plugins the second failed
\* transform_params after the first had changed the params; the third was
\* not invoked.
C6_Witness ==
    /\ drv.op = "transform_params"
    /\ Len(Engine) = 3
    /\ Len(drv.visited) = 2
    /\ ~drv.out.ok
    /\ drv.visited[2].arg # drv.arg

AssocPlugins == assoc.l1 \o assoc.l2
AssocPure ==
    /\ \A i, j \in 1..Len(AssocPlugins) :
           AssocPlugins[i].phase = AssocPlugins[j].phase
    /\ \A i \in 1..Len(AssocPlugins) : ~ChainFails(assoc.hook, AssocPlugins[i])

\* C7: for plugins of one phase whose transforms do not fail, the chain of
\* the engine built from l1 followed by the chain of the engine built from l2
\* gives the same value as the chain of one engine built from l1 \o l2.
C7_Associative ==
    (assoc.set /\ assoc.split.some /\ assoc.whole.some /\ AssocPure) =>
        /\ assoc.split.val.ok
        /\ assoc.whole.val.ok
        /\ assoc.split.val.val = assoc.whole.val.val

\* C7 witness: [A, B] then [C] against [A, B, C] with three Post plugins, a
\* push, a trunc and a push, on params of two messages.
C7_Witness ==
    /\ assoc.set /\ assoc.split.some /\ assoc.whole.some /\ AssocPure
    /\ Len(assoc.l1) = 2 /\ Len(assoc.l2) = 1
    /\ assoc.hook = "transform_params"
    /\ assoc.l1[1].tp = "push" /\ assoc.l1[2].tp = "trunc"
    /\ assoc.l2[1].tp = "push"
    /\ assoc.whole.val.val.messages = <<7, 3>>

RetryableKinds == {"Network", "Timeout", "RateLimit"}
RetryActive == retry.pc # "off"
IsRetryableErr(r) == ~r.ok /\ r.err.kind \in RetryableKinds
IsTerminalErr(r) == ~r.ok /\ r.err.kind \notin RetryableKinds

\* C8: of the errors the inner connector returned, is_retryable holds for
\* exactly those of kind Network, Timeout or RateLimit, and the retry loop
\* slept only after such an error.
C8_RetryableKinds ==
    RetryActive =>
        /\ \A i \in 1..Len(retry.results) :
               ~retry.results[i].ok =>
                   (is_retryable(retry.results[i].err)
                        <=> retry.results[i].err.kind \in RetryableKinds)
        /\ \A i \in 1..Len(retry.sleeps) : IsRetryableErr(retry.results[i])

\* C8 witness: a RateLimit and a Network error were retried, a Plugin error
\* was not.
C8_Witness ==
    /\ RetryActive
    /\ retry.pc = "done"
    /\ Len(retry.results) = 3
    /\ Len(retry.sleeps) = 2
    /\ ~retry.results[1].ok /\ retry.results[1].err.kind = "RateLimit"
    /\ ~retry.results[2].ok /\ retry.results[2].err.kind = "Network"
    /\ ~retry.results[3].ok /\ retry.results[3].err.kind = "Plugin"
    /\ retry.config.max_retries = 3

\* C9: with max_retries = n, an outer call whose inner calls all failed with
\* retryable errors ends after exactly n + 1 inner calls and n sleeps with an
\* error; an inner call that fails with an error that is not retryable is the
\* last inner call, no sleep follows it, and the outer call returns it; and
\* with n = 0 there is at most one inner call and no sleep.
C9_RetryBudget ==
    RetryActive =>
        LET n == retry.config.max_retries
            made == Len(retry.results)
        IN  /\ (retry.pc = "done"
                    /\ \A i \in 1..made : IsRetryableErr(retry.results[i]))
                   => /\ made = n + 1
                      /\ Len(retry.sleeps) = n
                      /\ ~retry.ret.res.ok
            /\ \A i \in 1..made :
                   IsTerminalErr(retry.results[i]) =>
                       /\ i = made
                       /\ Len(retry.sleeps) = i - 1
                       /\ retry.pc \in {"match", "done"}
                       /\ retry.pc = "done" => retry.ret.res = retry.results[i]
            /\ made <= n + 1
            /\ Len(retry.sleeps) <= n

\* C9 witness: max_retries = 3 and four retryable failures.
C9_Witness ==
    /\ RetryActive
    /\ retry.pc = "done"
    /\ retry.config.max_retries = 3
    /\ Len(retry.results) = 4
    /\ Len(retry.sleeps) = 3
    /\ \A i \in 1..4 : IsRetryableErr(retry.results[i])

\* C10: an outer call that returns Ok after k failed attempts returns the
\* inner success, had k <= max_retries retryable failures, and slept exactly k
\* times, for calculate_delay(0), ..., calculate_delay(k - 1) in this order;
\* there is one sleep between two consecutive attempts and none after the
\* last attempt.
C10_SleepsBeforeSuccess ==
    RetryActive =>
        LET made == Len(retry.results)
        IN  /\ Len(retry.sleeps) =
                   (IF retry.pc \in {"match", "done"} THEN made - 1 ELSE made)
            /\ retry.pc \notin {"idle"} =>
                   retry.attempt =
                       (IF retry.pc = "sleeping" THEN made - 1
                        ELSE IF retry.pc = "operation" THEN made
                        ELSE made - 1)
            /\ (retry.pc = "done" /\ retry.ret.res.ok) =>
                   /\ retry.ret.res = retry.results[made]
                   /\ made - 1 <= retry.config.max_retries
                   /\ \A i \in 1..(made - 1) : IsRetryableErr(retry.results[i])
                   /\ retry.sleeps =
                          [i \in 1..(made - 1) |->
                              calculate_delay(retry.config, i - 1)]

\* C10 witness: two Timeout failures and a success with max_retries = 3 and
\* the default delays: exactly the two sleeps 100 and 200.
C10_Witness ==
    /\ RetryActive
    /\ retry.pc = "done"
    /\ retry.config = RetryLayer_new
    /\ Len(retry.results) = 3
    /\ ~retry.results[1].ok /\ retry.results[1].err.kind = "Timeout"
    /\ ~retry.results[2].ok /\ retry.results[2].err.kind = "Timeout"
    /\ retry.ret.res.ok
    /\ retry.sleeps = <<Duration_from_millis(100), Duration_from_millis(200)>>

(***************************************************************************)
(* C11  The default backoff schedule                                       *)
(***************************************************************************)
DefaultSchedule == <<100, 200, 400, 800, 1600, 3200, 6400>>
DelayOfDefault ==
    /\ delay.pc = "done"
    /\ delay.config.initial_delay = Duration_from_millis(100)
    /\ delay.config.backoff_multiplier = 20
    /\ delay.config.max_delay = Duration_from_millis(10000)

\* C11: with initial delay 100 ms, factor 2.0 and max delay 10000 ms,
\* calculate_delay(attempt) is 100, 200, 400, 800, 1600, 3200, 6400 for the
\* attempts 0..6 and exactly 10000 for every attempt from 7 on.
C11_DefaultSchedule ==
    DelayOfDefault =>
        /\ delay.attempt <= 6 =>
               delay.out.val = Duration_from_millis(DefaultSchedule[delay.attempt + 1])
        /\ delay.attempt >= 7 => delay.out.val = Duration_from_millis(10000)
        /\ (delay.out.val = delay.config.max_delay) <=> delay.attempt >= 7

\* The cap has just triggered for the first time, at attempt 7.
C11_Witness ==
    /\ DelayOfDefault
    /\ delay.attempt = 7
    /\ delay.out.val = Duration_from_millis(10000)

(***************************************************************************)
(* C12  Streaming: only the opening call is retried                        *)
(***************************************************************************)
StackActive == stack.pc # "off"
TraceOf(ev) == {i \in 1..Len(stack.trace) : stack.trace[i].ev = ev}
BaseCalls == TraceOf("base")
LastBaseCall == CHOOSE i \in BaseCalls : \A j \in BaseCalls : j <= i

RECURSIVE LayersOf(_)
\* The layers of a provider, innermost first.
LayersOf(provider) ==
    IF provider.kind = "Base" THEN <<>>
    ELSE Append(LayersOf(provider.inner),
                [kind |-> provider.kind, cfg |-> provider.cfg, n |-> provider.n])

HasRetryLayer ==
    \E i \in 1..Len(LayersOf(executor.provider)) :
        /\ LayersOf(executor.provider)[i].kind = "Retry"
        /\ LayersOf(executor.provider)[i].cfg.max_retries >= 2

\* C12: in a stream_chat_completion call, once a call of the base connector
\* has returned a stream, nothing in the trace follows it but the returns of
\* the layers (no further inner call, no sleep, no entry of a layer),
\* whatever the polled items are; the caller is handed that very stream, and
\* polls its items as the connector produced them.
C12_StreamOpenOnly ==
    (StackActive /\ stack.op = "stream_chat_completion") =>
        /\ \A i \in BaseCalls :
               stack.trace[i].data.res.ok =>
                   \A j \in (i + 1)..Len(stack.trace) :
                       stack.trace[j].ev \in {"exit", "log"}
        /\ (stack.ret.returned /\ stack.ret.res.ok) =>
               /\ BaseCalls # {}
               /\ stack.ret.res = stack.trace[LastBaseCall].data.res
               /\ IsPrefix(stack.polled, stack.trace[LastBaseCall].data.res.val)
        /\ stack.polled # <<>> => (stack.ret.returned /\ stack.ret.res.ok)

\* Under a RetryLayer with retries to spare, the opening call failed once
\* and was retried, the second call returned a stream, and the caller has
\* polled an item of it that is a retryable error: two calls of the base
\* connector in all.
C12_Witness ==
    /\ StackActive
    /\ stack.op = "stream_chat_completion"
    /\ HasRetryLayer
    /\ Cardinality(BaseCalls) = 2
    /\ \E k \in 1..Len(stack.polled) :
           ~stack.polled[k].ok /\ is_retryable(stack.polled[k].err)
    /\ Len(stack.polled) = Len(stack.ret.res.val)

(***************************************************************************)
(* C13  Layers nest in attachment order                                    *)
(***************************************************************************)
\* The number of layer() calls made on the builder.
Attached == Cardinality({i \in 1..Len(calls) : calls[i].op = "layer"})

EventCount(ev, n, upto) ==
    Cardinality({j \in 1..upto : stack.trace[j].ev = ev /\ stack.trace[j].layer = n})

\* The layers that have been entered and have not returned after the first
\* `upto` events of the trace.
Active(upto) ==
    {n \in 1..Attached : EventCount("enter", n, upto) > EventCount("exit", n, upto)}

\* The events the last step may have appended: a step appends at most two,
\* and the trace only grows, so every event of every trace is a recent event
\* of some reachable state.
Recent == {i \in 1..Len(stack.trace) : i >= Len(stack.trace) - 1}

\* C13: with layers numbered 1..n in the order of their layer() calls, the
\* finished provider is layer n around layer n-1 ... around layer 1 around
\* the base connector; a call enters layer k only from inside layers n..k+1,
\* reaches the base connector only from inside all of them, and layer k
\* returns only when the layers below it have returned, so results pass
\* back through 1, ..., n in that order.
C13_LayerNesting ==
    (executor.built /\ StackActive) =>
        /\ Len(LayersOf(executor.provider)) = Attached
        /\ \A k \in 1..Attached : LayersOf(executor.provider)[k].n = k
        /\ \A i \in Recent :
               LET e == stack.trace[i]
               IN  /\ e.ev = "enter" => Active(i - 1) = (e.layer + 1)..Attached
                   /\ e.ev = "base" => Active(i - 1) = 1..Attached
                   /\ e.ev = "exit" => Active(i - 1) = e.layer..Attached
        /\ stack.ret.returned =>
               /\ Active(Len(stack.trace)) = {}
               /\ Attached > 0 =>
                      /\ stack.trace[1].ev = "enter"
                      /\ stack.trace[1].layer = Attached
                      /\ Last(stack.trace).ev = "exit"
                      /\ Last(stack.trace).layer = Attached

\* Two layers of different kinds were attached, and a call went down
\* through both to the base connector and came back.
C13_Witness ==
    /\ executor.built
    /\ StackActive
    /\ Attached = 2
    /\ LayersOf(executor.provider)[1].kind # LayersOf(executor.provider)[2].kind
    /\ stack.ret.returned
    /\ Cardinality(BaseCalls) = 1

(***************************************************************************)
(* C14  What a LoggingLayer sees outside and inside a RetryLayer           *)
(***************************************************************************)
LayerKindsAttached ==
    [k \in 1..Len(LayersOf(executor.provider)) |-> LayersOf(executor.provider)[k].kind]
LoggingOutsideRetry == executor.built /\ LayerKindsAttached = <<"Retry", "Logging">>
LoggingInsideRetry == executor.built /\ LayerKindsAttached = <<"Logging", "Retry">>
LogLines == TraceOf("log")
IsLine(i, lines) ==
    /\ i \in 1..Len(stack.trace)
    /\ stack.trace[i].ev = "log"
    /\ stack.trace[i].data.line \in lines

RECURSIVE TimeSpent(_, _)
\* The time the base calls and backoff sleeps of trace[from..to] took.
TimeSpent(from, to) ==
    IF from > to THEN 0
    ELSE (CASE stack.trace[to].ev = "base" -> stack.trace[to].data.took
            [] stack.trace[to].ev = "sleep" -> stack.trace[to].data
            [] OTHER -> 0)
         + TimeSpent(from, to - 1)

\* C14: with the LoggingLayer attached after the RetryLayer, a call writes
\* one request line before anything else happens and one result line after
\* everything else, so the pair spans every attempt and every backoff sleep;
\* the result line reports the outcome the caller gets and the elapsed time
\* of all attempts and sleeps.  With the LoggingLayer attached before the
\* RetryLayer, every request line is followed by one base call and then its
\* result line, whose elapsed time is that one attempt's; no sleep lies
\* inside a pair, and there are as many pairs as attempts.
C14_LoggingVsRetryOrder ==
    /\ (LoggingOutsideRetry /\ StackActive) =>
           /\ Cardinality({i \in LogLines : IsLine(i, {"request"})}) <= 1
           /\ \A i \in LogLines : IsLine(i, {"request"}) => i = 2
           /\ stack.ret.returned =>
                  LET post == Len(stack.trace) - 1
                  IN  /\ LogLines = {2, post}
                      /\ IsLine(2, {"request"})
                      /\ IsLine(post, {IF stack.ret.res.ok THEN "success" ELSE "error"})
                      /\ (BaseCalls \cup TraceOf("sleep")) \subseteq 3..(post - 1)
                      /\ Cardinality(BaseCalls) = Cardinality(TraceOf("sleep")) + 1
                      /\ stack.trace[post].data.elapsed = TimeSpent(1, Len(stack.trace))
    /\ (LoggingInsideRetry /\ StackActive) =>
           /\ \A i \in LogLines :
                  IsLine(i, {"request"}) =>
                      /\ i + 1 <= Len(stack.trace) => stack.trace[i + 1].ev = "base"
                      /\ i + 2 <= Len(stack.trace) =>
                             /\ IsLine(i + 2, {IF stack.trace[i + 1].data.res.ok
                                               THEN "success" ELSE "error"})
                             /\ stack.trace[i + 2].data.elapsed =
                                    stack.trace[i + 1].data.took
           /\ \A i \in LogLines :
                  IsLine(i, {"success", "error"}) => IsLine(i - 2, {"request"})
           /\ stack.ret.returned =>
                  /\ Cardinality(LogLines) = 2 * Cardinality(BaseCalls)
                  /\ Cardinality(BaseCalls) = Cardinality(TraceOf("sleep")) + 1

\* The LoggingLayer is outside the RetryLayer, the call took three attempts
\* and two sleeps, and the single result line measures all of them.
C14_WitnessOutside ==
    /\ LoggingOutsideRetry
    /\ StackActive
    /\ stack.ret.returned
    /\ Cardinality(BaseCalls) = 3
    /\ Cardinality(LogLines) = 2
    /\ stack.trace[Len(stack.trace) - 1].data.elapsed
           = Duration_from_millis(3 + 100 + 3 + 200 + 3)

\* The LoggingLayer is inside the RetryLayer, the call took three attempts
\* and two sleeps, and the last of the three result lines measures the last
\* attempt only.
C14_Witness ==
    /\ LoggingInsideRetry
    /\ StackActive
    /\ stack.ret.returned
    /\ Cardinality(BaseCalls) = 3
    /\ Cardinality(LogLines) = 6
    /\ stack.now = Duration_from_millis(3 + 100 + 3 + 200 + 3)
    /\ \E i \in LogLines :
           /\ \A j \in LogLines : j <= i
           /\ stack.trace[i].data.elapsed = Duration_from_millis(3)

(***************************************************************************)
(* C15  LoggingProvider and the LayeredProvider defaults are transparent   *)
(***************************************************************************)
TransparentKinds == {"Logging", "Forwarding"}
IsInnerCallOf(j, n) ==
    \/ n = 1 /\ stack.trace[j].ev = "base"
    \/ n > 1 /\ stack.trace[j].ev = "enter" /\ stack.trace[j].layer = n - 1
IsInnerReturnOf(j, n) ==
    \/ n = 1 /\ stack.trace[j].ev = "base"
    \/ n > 1 /\ stack.trace[j].ev = "exit" /\ stack.trace[j].layer = n - 1
ReqOf(j) ==
    IF stack.trace[j].ev = "base" THEN stack.trace[j].data.req ELSE stack.trace[j].data
ResOf(j) ==
    IF stack.trace[j].ev = "base" THEN stack.trace[j].data.res ELSE stack.trace[j].data
\* The entries of a transparent layer in the trace.
TransparentEntries ==
    {i \in TraceOf("enter") :
        LayersOf(executor.provider)[stack.trace[i].layer].kind \in TransparentKinds}
\* Where the activation entered at i returns: Len + 1 if it has not yet.
ExitOf(i) ==
    LET xs == {x \in (i + 1)..Len(stack.trace) :
                  /\ stack.trace[x].ev = "exit"
                  /\ stack.trace[x].layer = stack.trace[i].layer}
    IN  IF xs = {} THEN Len(stack.trace) + 1
        ELSE CHOOSE x \in xs : \A y \in xs : x <= y
InnerCallsOf(i) ==
    {j \in (i + 1)..(ExitOf(i) - 1) : IsInnerCallOf(j, stack.trace[i].layer)}
InnerReturnsOf(i) ==
    {j \in (i + 1)..(ExitOf(i) - 1) : IsInnerReturnOf(j, stack.trace[i].layer)}

\* C15: every activation of a LoggingProvider, and of a provider that keeps
\* the LayeredProvider defaults, calls its inner provider at most once, and
\* exactly once by the time it returns; the inner call carries the request
\* the layer was given, and the layer returns the Result its inner call
\* returned, Ok or Err, for chat_completion and stream_chat_completion.
\* info() of the layered provider is the base connector's ProviderInfo.
C15_TransparentLayers ==
    (executor.built /\ StackActive) =>
        /\ Provider_info(executor.provider) = Connector(ProviderId).info
        /\ \A i \in TransparentEntries :
               /\ Cardinality(InnerCallsOf(i)) <= 1
               /\ \A j \in InnerCallsOf(i) : ReqOf(j) = stack.trace[i].data
               /\ stack.trace[i].data = stack.req
               /\ ExitOf(i) <= Len(stack.trace) =>
                      /\ Cardinality(InnerCallsOf(i)) = 1
                      /\ Cardinality(InnerReturnsOf(i)) = 1
                      /\ \A j \in InnerReturnsOf(i) :
                             ResOf(j) = stack.trace[ExitOf(i)].data

\* A LoggingProvider around a forwarding provider around the base
\* connector has returned the connector's retryable error to the caller.
C15_Witness ==
    /\ executor.built
    /\ StackActive
    /\ LayerKindsAttached = <<"Forwarding", "Logging">>
    /\ stack.ret.returned
    /\ ~stack.ret.res.ok
    /\ stack.ret.res.err.kind = "Network"
    /\ TransparentEntries = {1, 3}

(***************************************************************************)
(* C16  detect_json_strategy                                               *)
(***************************************************************************)
StratActive == strat.pc # "off"
Detected == StratActive /\ strat.how = "detected"
StratApplied == StratActive /\ strat.pc = "applied"
RecognizedIds == {"openai", "anthropic", "azure", "deepseek"}

\* C16: detect_json_strategy gives the strict JsonSchemaStrategy for the id
\* "openai", and the JsonModeStrategy that places a system message for
\* "deepseek" and for every id it does not name; applied, the first sets a
\* strict JsonSchema response format, the second JsonObject and a leading
\* system message.
C16_DetectStrategy ==
    Detected =>
        /\ strat.provider_id = "openai" =>
               /\ strat.strategy.val = [name |-> "JsonSchemaStrategy", strict |-> TRUE]
               /\ StratApplied =>
                      /\ strat.out.val.req.response_format.val.type = "JsonSchema"
                      /\ strat.out.val.req.response_format.val.strict
        /\ (strat.provider_id = "deepseek" \/ strat.provider_id \notin RecognizedIds) =>
               /\ strat.strategy.val =
                      [name |-> "JsonModeStrategy", use_system_message |-> TRUE]
               /\ StratApplied =>
                      /\ strat.out.val.req.response_format.val.type = "JsonObject"
                      /\ strat.out.val.req.messages[1].role = "System"

\* The strategy detected for an id the function does not name has been
\* applied and has put a system message first.
C16_Witness ==
    /\ Detected
    /\ StratApplied
    /\ strat.provider_id = "unknown"
    /\ strat.strategy.val.name = "JsonModeStrategy"
    /\ strat.out.val.req.messages[1].role = "System"
    /\ Len(strat.req.messages) = 2

(***************************************************************************)
(* C17  The strategy the builder gives the executor                        *)
(***************************************************************************)
StrategyCalls == {i \in 1..Len(calls) : calls[i].op = "json_strategy"}
LastStrategyCall == CHOOSE i \in StrategyCalls : \A j \in StrategyCalls : j <= i

RECURSIVE BaseOf(_)
\* The base connector under the layers.
BaseOf(provider) == IF provider.kind = "Base" THEN provider ELSE BaseOf(provider.inner)

\* C17: the finished executor's strategy is the argument of the last
\* json_strategy() call made on the builder, wherever that call stood among
\* the layer() and plugin() calls; if there was none, it is the strategy
\* detect_json_strategy gives for the id of the base connector under the
\* layers.
C17_BuilderStrategy ==
    executor.built =>
        /\ StrategyCalls # {} => executor.json_strategy = calls[LastStrategyCall].arg
        /\ StrategyCalls = {} =>
               executor.json_strategy =
                   detect_json_strategy(BaseOf(executor.provider).info.id)
        /\ Provider_info(executor.provider) = BaseOf(executor.provider).info

\* json_strategy() was called, then layer(), then json_strategy() with a
\* different strategy; the executor of an "openai" connector has the second
\* one, which is not the one detection would give.
C17_Witness ==
    /\ executor.built
    /\ Len(calls) = 3
    /\ calls[1].op = "json_strategy"
    /\ calls[2].op = "layer"
    /\ calls[3].op = "json_strategy"
    /\ calls[1].arg # calls[3].arg
    /\ executor.json_strategy = calls[3].arg
    /\ BaseOf(executor.provider).info.id = "openai"
    /\ executor.json_strategy # detect_json_strategy("openai")

\* No json_strategy() call: the executor of a "deepseek" connector under
\* two layers has the detected JsonModeStrategy.
C17_WitnessDetected ==
    /\ executor.built
    /\ StrategyCalls = {}
    /\ Depth(executor.provider) = 2
    /\ BaseOf(executor.provider).info.id = "deepseek"
    /\ executor.json_strategy.name = "JsonModeStrategy"

(***************************************************************************)
(* C18  JsonModeStrategy, instruction as a system message                  *)
(***************************************************************************)
ModeApplied(use_system_message) ==
    /\ StratApplied
    /\ strat.strategy.val.name = "JsonModeStrategy"
    /\ strat.strategy.val.use_system_message = use_system_message
Before == strat.req.messages
After == strat.out.val.req.messages

\* C18: JsonModeStrategy with use_system_message, applied to a request of n
\* messages, succeeds and leaves n + 1 messages: the first is a new
\* unnamed system message whose single text part is the schema
\* instruction, the n original messages follow unchanged in their order,
\* and response_format is JsonObject.
C18_SystemPlacement ==
    ModeApplied(TRUE) =>
        /\ strat.out.val.result.ok
        /\ Len(After) = Len(Before) + 1
        /\ After[1].role = "System"
        /\ After[1].name = None
        /\ Len(After[1].content) = 1
        /\ After[1].content[1].type = "Text"
        /\ After[1].content[1].text = build_json_instruction(strat.schema)
        /\ After[1].content[1].text[2] = strat.schema
        /\ \A i \in 1..Len(Before) : After[i + 1] = Before[i]
        /\ strat.out.val.req.response_format = Some([type |-> "JsonObject"])

\* A request of one user message has become a request of two messages,
\* the system message first.
C18_Witness ==
    /\ ModeApplied(TRUE)
    /\ Len(Before) = 1
    /\ Before[1].role = "User"
    /\ Len(After) = 2
    /\ After[1].role = "System"
    /\ After[2] = Before[1]

(***************************************************************************)
(* C19  JsonModeStrategy, instruction appended to the last user message    *)
(***************************************************************************)
IsLastUser(messages, l) ==
    /\ l \in 1..Len(messages)
    /\ messages[l].role = "User"
    /\ \A j \in (l + 1)..Len(messages) : messages[j].role # "User"
HasUser(messages) == \E l \in 1..Len(messages) : messages[l].role = "User"

\* C19: JsonModeStrategy without use_system_message succeeds and sets
\* JsonObject; if the request has a user message, the number of messages
\* stays, the last user message keeps its role, name and parts and gains
\* one text part, two newlines and the instruction, and every other
\* message is unchanged; if it has none, one unnamed user message whose
\* single text part is the instruction is appended after the others.
C19_UserPlacement ==
    ModeApplied(FALSE) =>
        /\ strat.out.val.result.ok
        /\ strat.out.val.req.response_format = Some([type |-> "JsonObject"])
        /\ HasUser(Before) =>
               /\ Len(After) = Len(Before)
               /\ \A l \in 1..Len(Before) :
                      IF IsLastUser(Before, l)
                      THEN /\ After[l].role = "User"
                           /\ After[l].name = Before[l].name
                           /\ Len(After[l].content) = Len(Before[l].content) + 1
                           /\ \A k \in 1..Len(Before[l].content) :
                                  After[l].content[k] = Before[l].content[k]
                           /\ Last(After[l].content).type = "Text"
                           /\ Last(After[l].content).text =
                                  <<"\n\n">> \o build_json_instruction(strat.schema)
                      ELSE After[l] = Before[l]
        /\ ~HasUser(Before) =>
               /\ Len(After) = Len(Before) + 1
               /\ \A l \in 1..Len(Before) : After[l] = Before[l]
               /\ Last(After).role = "User"
               /\ Last(After).name = None
               /\ Last(After).content =
                      <<[type |-> "Text", text |-> build_json_instruction(strat.schema)]>>

\* Of two user messages the second has gained the instruction and the
\* first has not.
C19_Witness ==
    /\ ModeApplied(FALSE)
    /\ Len(Before) = 2
    /\ Before[1].role = "User"
    /\ Before[2].role = "User"
    /\ Before[1] # Before[2]
    /\ After[1] = Before[1]
    /\ Len(After[2].content) = Len(Before[2].content) + 1

\* A request without a user message has gained one at its end.
C19_WitnessNoUser ==
    /\ ModeApplied(FALSE)
    /\ Len(Before) = 2
    /\ ~HasUser(Before)
    /\ Len(After) = 3
    /\ After[3].role = "User"

(***************************************************************************)
(* C20  JsonSchemaStrategy::apply                                          *)
(***************************************************************************)
SchemaApplied ==
    /\ StratApplied
    /\ strat.strategy.val.name = "JsonSchemaStrategy"
OtherFields == DOMAIN strat.req \ {"response_format"}

\* C20: JsonSchemaStrategy::apply succeeds and sets response_format to the
\* JsonSchema descriptor named "response" that holds the caller's schema and
\* the strategy's strict flag, true for the strategy new() builds, whatever
\* the request's response_format was; model, messages and every other
\* field of the request are as before.
C20_SchemaFormat ==
    SchemaApplied =>
        /\ strat.out.val.result.ok
        /\ strat.out.val.req.response_format =
               Some([type |-> "JsonSchema", name |-> "response",
                     schema |-> strat.schema,
                     strict |-> strat.strategy.val.strict])
        /\ strat.how = "detected" => strat.out.val.req.response_format.val.strict
        /\ DOMAIN strat.out.val.req = DOMAIN strat.req
        /\ \A f \in OtherFields : strat.out.val.req[f] = strat.req[f]

\* A lenient strategy has replaced the Text format of a request of two
\* messages and a token limit by a JsonSchema format that is not strict.
C20_Witness ==
    /\ SchemaApplied
    /\ strat.how = "constructed"
    /\ ~strat.strategy.val.strict
    /\ strat.req.response_format = Some([type |-> "Text"])
    /\ strat.req.max_tokens = Some(16)
    /\ Len(Before) = 2
    /\ ~strat.out.val.req.response_format.val.strict
    /\ After = Before


\* The call in progress or ended is one of generate_object / generate_text.
ObjectCall == "op" \in DOMAIN call /\ call.op = "generate_object"
TextCall == "ctx" \in DOMAIN call
HookCategories ==
    {"resolve_model", "transform_params", "transform_result",
     "on_request_start", "on_request_end", "on_error"}
\* The entries of the log made by stage `stage`: its driver's call and the
\* hooks it invoked.
LogOf(stage) == SelectSeq(log, LAMBDA e : e.stage = stage)

\* C21: generate_object bypasses the plugin engine: at every point of every
\* generate_object call, ended with Ok or with an error or still running, no
\* driver of the engine has been called and no hook of any category
\* (resolve_model, transform_params, transform_result, on_request_start,
\* on_request_end, on_error) has been invoked, whatever plugins the executor
\* holds; and the request built, and every request handed to the connector,
\* carries the caller's model unchanged.
C21_ObjectBypassesPlugins ==
    ObjectCall =>
        /\ \A stage \in HookCategories : LogOf(stage) = <<>>
        /\ call.chat_req.val.model = call.model
        /\ \A i \in DOMAIN call.sent : call.sent[i].model = call.model

\* A generate_object call has returned Ok on an executor holding a plugin
\* whose resolve_model would have named another model.
C21_Witness ==
    /\ ObjectCall
    /\ pc = "done"
    /\ ret.res.ok
    /\ Len(call.sent) = 1
    /\ \E i \in DOMAIN executor.plugin_engine :
           /\ executor.plugin_engine[i].rm \notin {"None", "Err"}
           /\ executor.plugin_engine[i].rm # call.model

\* A generate_object call has failed on an executor holding a plugin whose
\* on_error hook is not the default one.
C21_WitnessFailing ==
    /\ ObjectCall
    /\ pc = "done"
    /\ ~ret.res.ok
    /\ \E i \in DOMAIN executor.plugin_engine : executor.plugin_engine[i].oe = "Err"


\* The connector calls the running call has issued, by the log.
ConnectorCalls == Len(LogOf("chat_completion"))
\* The text generate_object parses: the first choice's text parts, joined.
FirstChoiceText == JoinText(call.conn.val.val.choices[1].content)
\* The connector answered the running generate_object call with a response
\* that has a first choice.
ObjectAnswered ==
    /\ ObjectCall
    /\ pc = "done"
    /\ call.conn.some
    /\ call.conn.val.ok
    /\ call.conn.val.val.choices # <<>>
\* The texts of the connector's first choices that are not JSON.
NotJson == { <<"h", "i">>, <<"1", "2", " ", "x">>, <<"[", "1">> }

\* C22: in generate_object the output strategy is applied before the
\* connector is called: every request the connector receives is the request
\* literal after the executor's strategy was applied with the caller's schema,
\* and its response_format is set. The orchestrator calls the connector at
\* most once per call; when the first choice's joined text is not valid JSON
\* the call returns a Serialization error after exactly one chat_completion
\* call, whatever the other choices hold.
C22_StrategyThenSingleCall ==
    ObjectCall =>
        /\ \A i \in DOMAIN call.sent :
               /\ call.sent[i].response_format.some
               /\ call.sent[i] =
                      JsonOutputStrategy_apply(executor.json_strategy,
                                               ObjectChatRequest(call.model, call.params),
                                               call.params.schema).req
        /\ ConnectorCalls = Len(call.sent)
        /\ ConnectorCalls <= 1
        /\ (ObjectAnswered /\ ~serde_json_from_str(FirstChoiceText).ok) =>
               /\ ret.returned
               /\ ~ret.res.ok
               /\ ret.res.err.kind = "Serialization"
               /\ ConnectorCalls = 1

\* A generate_object call has ended on a response whose first choice is not
\* JSON while its second choice is.
C22_Witness ==
    /\ ObjectAnswered
    /\ FirstChoiceText \in NotJson
    /\ Len(call.conn.val.val.choices) = 2
    /\ serde_json_from_str(JoinText(call.conn.val.val.choices[2].content)).ok
    /\ ret.res = Err(SerializationError)
    /\ call.sent[1].response_format.val.type = "JsonSchema"

\* A generate_object call has returned the object parsed from text that was
\* split over two text parts around a part that is not text.
C22_WitnessParsed ==
    /\ ObjectAnswered
    /\ ret.res.ok
    /\ ret.res.val.object = JsonValue("object", <<>>)
    /\ Len(call.conn.val.val.choices[1].content) = 3
    /\ call.sent[1].response_format.val.type = "JsonObject"


\* The connector has answered the call with a response without choices, and
\* the call has looked at it.
ZeroChoices ==
    /\ TextCall \/ ObjectCall
    /\ call.conn.some
    /\ call.conn.val.ok
    /\ call.conn.val.val.choices = <<>>
    /\ pc # "match_result"

\* C23: when the connector returns a response with zero choices,
\* generate_text and generate_object both end with the Provider error
\* "No choices in response"; and in generate_text neither the
\* transform_result chain nor the on_request_end batch is invoked for that
\* call.
C23_NoChoices ==
    ZeroChoices =>
        /\ pc = "done"
        /\ ret.returned
        /\ ret.res = Err([kind |-> "Provider", who |-> 0,
                          msg |-> "No choices in response"])
        /\ LogOf("transform_result") = <<>>
        /\ LogOf("on_request_end") = <<>>

\* A generate_text call has ended on a response without choices, on an
\* executor holding a plugin that transforms results.
C23_Witness ==
    /\ ZeroChoices
    /\ TextCall
    /\ pc = "done"
    /\ \E i \in DOMAIN executor.plugin_engine : executor.plugin_engine[i].tr # "id"

\* A generate_object call has ended on a response without choices.
C23_WitnessObject ==
    /\ ZeroChoices
    /\ ObjectCall
    /\ pc = "done"
    /\ Len(call.sent) = 1


\* The text parts of a message's content, in order.
TextParts(content) == SelectSeq(content, LAMBDA part : part.type = "Text")
RECURSIVE Concat(_)
\* The texts of a sequence of text parts, one after the other.
Concat(parts) ==
    IF parts = <<>> THEN <<>>
    ELSE Concat(SubSeq(parts, 1, Len(parts) - 1)) \o parts[Len(parts)].text
\* A generate_text call has ended after the connector answered it with a
\* response that has a first choice.
TextAnswered ==
    /\ TextCall
    /\ pc = "done"
    /\ call.conn.some
    /\ call.conn.val.ok
    /\ call.conn.val.val.choices # <<>>

\* C24: on an executor without plugins, generate_text calls the connector
\* exactly once, with the caller's model and params in the request, and
\* returns Ok with: content the in-order concatenation of the text parts of
\* the first choice only (later choices and parts that are not text do not
\* contribute), the first choice's finish reason, and the response's usage
\* and model.
C24_PlainGenerateText ==
    (TextAnswered /\ executor.plugin_engine = <<>>) =>
        LET response == call.conn.val.val
            first == response.choices[1]
        IN  /\ ConnectorCalls = 1
            /\ call.chat_req.val = ChatRequest(call.model, call.params)
            /\ ret.returned
            /\ ret.res.ok
            /\ ret.res.val.content = Concat(TextParts(first.content))
            /\ ret.res.val.finish_reason = first.finish_reason
            /\ ret.res.val.usage = response.usage
            /\ ret.res.val.model = response.model

\* Without plugins, a response whose first choice holds a text part, a part
\* that is not text and another text part has been returned as the two texts
\* joined.
C24_Witness ==
    /\ TextAnswered
    /\ executor.plugin_engine = <<>>
    /\ Len(call.conn.val.val.choices[1].content) = 3
    /\ ret.res.val.content = <<1, 2, 3>>
    /\ ret.res.val.finish_reason = "Length"

\* Without plugins, a response of two choices has been returned as its first
\* choice alone.
C24_WitnessTwoChoices ==
    /\ TextAnswered
    /\ executor.plugin_engine = <<>>
    /\ Len(call.conn.val.val.choices) = 2
    /\ ret.res.val.content = <<4>>
    /\ ret.res.val.finish_reason = "Stop"
    /\ ret.res.val.usage = 4


\* The TextResult made of the connector's response, before any plugin.
RawResult == ToTextResult(call.conn.val.val).val
\* What the transform_result chain of the executor's engine makes of it.
Chained == PluginEngine_transform_result(Engine, RawResult).out
\* The plugins whose hook `h` fails.
Failing(h) == {i \in DOMAIN Engine : Engine[i][h] = "Err"}

\* C25: once the connector has answered a generate_text call with a response
\* that has a first choice: if a plugin's transform_result fails, the call
\* ends with that plugin's error and on_request_end is not started; else
\* the on_request_end hooks are made with the result as the whole
\* transform_result chain left it; if one of them fails the call ends with
\* that plugin's error, and if none fails the call returns Ok with exactly
\* that transformed result.
C25_AfterConnector ==
    TextAnswered =>
        /\ ret.returned
        /\ ~Chained.ok =>
               /\ ret.res = Err(Chained.err)
               /\ \E i \in Failing("tr") :
                      Chained.err = PluginError(Engine[i], "transform_result")
               /\ ~call.ended_with.some
               /\ LogOf("on_request_end") = <<>>
        /\ Chained.ok =>
               /\ call.ended_with = Some(Chained.val)
               /\ (Failing("re") = {}) => ret.res = Ok(Chained.val)
               /\ (Failing("re") # {}) =>
                      \E i \in Failing("re") :
                          ret.res = Err(PluginError(Engine[i], "on_request_end"))

\* A call has ended with the error of an on_request_end hook that was made
\* with a result the transform_result chain had changed.
C25_Witness ==
    /\ TextAnswered
    /\ Chained.ok
    /\ Chained.val # RawResult
    /\ call.ended_with = Some(Chained.val)
    /\ ~ret.res.ok
    /\ ret.res.err.msg = "on_request_end"

\* A call has returned Ok with a result two plugins' transform_result changed.
C25_WitnessOk ==
    /\ TextAnswered
    /\ ret.res.ok
    /\ ret.res.val # RawResult
    /\ Len(LogOf("on_request_end")) = 3
    /\ Cardinality({i \in DOMAIN Engine : Engine[i].tr # "id"}) = 2

\* A call has ended with the error of a transform_result hook that ran after
\* another one.
C25_WitnessTransformFails ==
    /\ TextAnswered
    /\ ~Chained.ok
    /\ Len(LogOf("transform_result")) = 3


\* The parallel batches of generate_text: the hook each runs and the position
\* of the call while the batch is being joined.
Batches ==
    { [stage |-> "on_request_start", hook |-> "rs", join |-> "join_request_start"],
      [stage |-> "on_request_end", hook |-> "re", join |-> "join_request_end"] }
\* The hooks of a batch that completed, as logged when the batch returned.
Completed(b) == SelectSeq(log, LAMBDA e : e.stage = b.stage /\ e.plugin # 0)
\* The batch was started and has returned.
BatchOver(b) == LogOf(b.stage) # <<>> /\ pc # b.join
\* The batch returned an error: the call ended with the error of its hook.
BatchFailed(b) ==
    /\ BatchOver(b)
    /\ ret.returned
    /\ ~ret.res.ok
    /\ ret.res.err.kind = "Plugin"
    /\ ret.res.err.msg = b.stage
\* The plugins whose hook of the batch never completed.
Abandoned(b) ==
    {i \in DOMAIN Engine :
        \A k \in DOMAIN Completed(b) : Completed(b)[k].plugin # Engine[i].name}

\* C26: the on_request_start and on_request_end batches are fail-fast. While
\* a batch is being joined no hook has been observed to fail: the first
\* observed failure ends the batch at once. A batch returns Ok exactly when
\* every plugin's hook returns Ok, and then every hook has completed. A batch
\* that fails returns the error of the one hook observed to fail, the call
\* ends with it, and the hooks that had not completed by then never do.
C26_FailFastBatches ==
    \A b \in Batches :
        /\ pc = b.join =>
               \A i \in DOMAIN batch :
                   /\ batch[i] \in {"pending", "ok"}
                   /\ batch[i] = "ok" => Engine[i][b.hook] = "Ok"
        /\ BatchOver(b) =>
               /\ ~BatchFailed(b) <=> Failing(b.hook) = {}
               /\ ~BatchFailed(b) =>
                      /\ Abandoned(b) = {}
                      /\ \A k \in DOMAIN Completed(b) : Completed(b)[k].ok
               /\ BatchFailed(b) =>
                      LET done == Completed(b)
                      IN  /\ pc = "done"
                          /\ done # <<>>
                          /\ ~done[Len(done)].ok
                          /\ done[Len(done)].plugin = ret.res.err.who
                          /\ \A k \in 1..(Len(done) - 1) : done[k].ok
                          /\ Cardinality(Abandoned(b)) = Len(Engine) - Len(done)

\* An on_request_start batch has failed after one sibling's hook completed
\* and while another's, earlier in the engine's order than the failing one,
\* never did.
C26_Witness ==
    \E b \in Batches :
        /\ b.stage = "on_request_start"
        /\ BatchFailed(b)
        /\ Len(Completed(b)) = 2
        /\ \E i \in Abandoned(b) : \E j \in Failing(b.hook) :
               /\ i < j
               /\ Engine[j].name = ret.res.err.who

\* An on_request_end batch has failed while no other hook had completed.
C26_WitnessEnd ==
    \E b \in Batches :
        /\ b.stage = "on_request_end"
        /\ BatchFailed(b)
        /\ Len(Completed(b)) = 1
        /\ Cardinality(Abandoned(b)) = 2


\* The two calls: the one running and the one parked.
Running == Parked(pc, call, batch, log, ret)
BothCalls == {Running, parked}
IsText(t) == "ctx" \in DOMAIN t.call
IsObject(t) == "op" \in DOMAIN t.call
\* The order of the stages inside one call; on_error follows the connector.
LifecycleIndex(stage) ==
    IF stage = "on_error" THEN StageIndex("chat_completion") + 1
    ELSE StageIndex(stage)
\* What the executor's engine and the call's own inputs determine.
OwnResolved(t) == PluginEngine_resolve_model(Engine, t.call.model).out
OwnParams(t) == PluginEngine_transform_params(Engine, t.call.params).out
OwnRaw(t) == ToTextResult(t.call.conn.val.val)
OwnChained(t) == PluginEngine_transform_result(Engine, OwnRaw(t).val).out

\* The hooks of a generate_text call are given that call's context, params
\* and result: every local is what the engine makes of the call's own inputs.
SeesOwnText(t) ==
    LET resolved == OwnResolved(t)
        params == OwnParams(t)
    IN  /\ t.call.ctx.model = t.call.model
        /\ t.call.ctx.provider_id = Provider_info(executor.provider).id
        /\ t.call.resolved_model.some => t.call.resolved_model = Some(resolved.val)
        /\ t.call.transformed_params.some =>
               t.call.transformed_params = Some(params.val)
        /\ t.call.chat_req.some =>
               t.call.chat_req.val = ChatRequest(resolved.val, params.val)
        /\ t.call.result.some =>
               LET raw == OwnRaw(t).val
                   chained == OwnChained(t)
               IN  /\ t.call.conn.some
                   /\ t.call.conn.val.ok
                   /\ t.call.conn.val.val.choices # <<>>
                   /\ \/ t.pc = "transform_result" /\ t.call.result = Some(raw)
                      \/ t.pc # "transform_result" /\ chained.ok
                             /\ t.call.result = Some(chained.val)
                      \/ t.pc = "done" /\ ~chained.ok /\ t.call.result = Some(raw)
                   /\ t.call.ended_with.some => t.call.ended_with = Some(chained.val)
                   /\ (t.ret.returned /\ t.ret.res.ok) => t.ret.res = Ok(chained.val)

\* A generate_object call works on its own model, params and response.
SeesOwnObject(t) ==
    /\ t.call.chat_req.val =
           JsonOutputStrategy_apply(executor.json_strategy,
                                    ObjectChatRequest(t.call.model, t.call.params),
                                    t.call.params.schema).req
    /\ t.call.conn.some =>
           t.ret.res = (IF t.call.conn.val.ok
                        THEN ToObjectResult(t.call.conn.val.val)
                        ELSE t.call.conn.val)

\* The stages of one call lie in the order of the lifecycle, each driver
\* called at most once.
KeepsLifecycle(t) ==
    LET m == Markers(t.log)
        at == [i \in 1..Len(t.log) |-> LifecycleIndex(t.log[i].stage)]
    IN  /\ \A i \in 1..(Len(at) - 1) : at[i] <= at[i + 1]
        /\ IsText(t) =>
               /\ m # <<>> => m[1] = "resolve_model"
               /\ \A i \in 1..(Len(m) - 1) :
                      LifecycleIndex(m[i + 1]) = LifecycleIndex(m[i]) + 1
               /\ (t.ret.returned /\ t.ret.res.ok) => m = SuccessStages
        /\ IsObject(t) => IsPrefix(m, <<"chat_completion">>)

\* C27: under every interleaving of two concurrent generate_text /
\* generate_object calls on one executor: the executor's plugin list (content
\* and order), connector chain and output strategy are those finish() built
\* from the builder; every local of each call (context, resolved model,
\* transformed params, request, result, returned value) is what the engine
\* makes of that call's own inputs and own connector response, the two
\* contexts carrying different request ids; and each call's own stages lie in
\* the lifecycle order.
C27_ConcurrentCalls ==
    executor.built =>
        /\ executor.plugin_engine = PluginEngine_new(builder.plugins)
        /\ executor.provider = builder.provider
        /\ executor.json_strategy =
               finish_json_strategy(builder.json_strategy,
                                    Provider_info(builder.provider).id)
        /\ \A t \in BothCalls :
               /\ IsText(t) => SeesOwnText(t)
               /\ IsObject(t) => SeesOwnObject(t)
               /\ KeepsLifecycle(t)
        /\ (IsText(Running) /\ IsText(parked)) =>
               call.ctx.request_id # parked.call.ctx.request_id

\* Two generate_text calls with different models and params are both under
\* way on an executor of two plugins: one has its result transformed, the
\* other is inside its on_request_start batch.
C27_Witness ==
    /\ Len(Engine) = 2
    /\ pc = "on_request_end"
    /\ IsText(parked)
    /\ parked.pc = "join_request_start"
    /\ call.model # parked.call.model
    /\ call.params # parked.call.params
    /\ call.result.val # OwnRaw(Running).val

\* A generate_text call and a generate_object call have both returned Ok, the
\* generate_object call having started first and ended last.
C27_WitnessMixed ==
    /\ IsObject(Running) /\ IsText(parked)
    /\ pc = "done" /\ parked.pc = "done"
    /\ ret.res.ok /\ parked.ret.res.ok
    /\ Len(Engine) = 2


\* A generate_text call has begun and not ended.
InCall == pc \notin {"building", "ready", "done"}
\* The call has ended: control is back with the caller.
Ended == pc = "done"
\* What the caller holds is one Result: Ok with a value and no error, or Err
\* with an error and no value.
OneOutcome ==
    /\ ret.returned
    /\ \/ ret.res.ok /\ DOMAIN ret.res = {"ok", "val"}
       \/ ~ret.res.ok /\ DOMAIN ret.res = {"ok", "err"}
\* The attempts the retry loop of the running call has made.
Attempts == Len(retry.results)

\* C28: every generate_text call ends with exactly one outcome. Nothing is
\* returned while the call runs; a call that ended returned one Result, Ok
\* with a value or Err with an error, and what was returned does not change
\* afterwards; the retry loop around the connector makes at most
\* max_retries + 1 attempts; and, every hook invocation, inner connector call
\* and sleep terminating, every call that begins ends.
C28_OneOutcomeAndTermination ==
    /\ [](/\ InCall => ~ret.returned
          /\ Ended => OneOutcome
          /\ retry.pc # "off" => Attempts <= retry.config.max_retries + 1)
    /\ [][ret.returned => ret' = ret]_vars
    /\ (InCall ~> Ended)

\* A call has ended with the error of the last attempt of a retry loop that
\* used up its budget of two retries.
C28_Witness ==
    /\ Ended
    /\ OneOutcome
    /\ ~ret.res.ok
    /\ retry.pc = "done"
    /\ retry.config.max_retries = 2
    /\ Attempts = 3
    /\ ret.res = retry.results[3]

\* A call has returned Ok after a retry loop that succeeded on its second
\* attempt.
C28_WitnessOk ==
    /\ Ended
    /\ OneOutcome
    /\ ret.res.ok
    /\ retry.pc = "done"
    /\ Attempts = 2


\* The plugins of the engine that override transform_stream, in engine order.
Wrapping(plugins) == SelectSeq(plugins, LAMBDA p : p.ts = "wrap")
StreamDriven == drv.op = "apply_stream_transforms"

\* C29: apply_stream_transforms folds the stream through the plugins in
\* engine order: the first plugin is handed the base stream, each next one
\* the output of the one before, and the stream returned is the base stream
\* inside the wrappers of the overriding plugins, the first plugin's
\* innermost and the last plugin's outermost. With no plugin, or with
\* plugins that all keep the default transform_stream, the base stream is
\* returned unchanged.
C29_StreamFold ==
    StreamDriven =>
        /\ drv.out = drv.arg \o Names(Wrapping(Engine))
        /\ VisitedNames(drv.visited) = Names(Engine)
        /\ \A i \in 1..Len(Engine) :
               drv.visited[i].arg =
                   drv.arg \o Names(Wrapping(SubSeq(Engine, 1, i - 1)))
        /\ Wrapping(Engine) = <<>> => drv.out = drv.arg

\* The stream came back inside two wrappers, around a plugin that keeps the
\* default: the wrapper of the plugin registered last is innermost, because
\* its phase puts it first in the engine.
C29_Witness ==
    /\ StreamDriven
    /\ Names(Engine) = <<3, 2, 1>>
    /\ drv.arg = BaseStream
    /\ drv.out = <<0, 3, 1>>

\* An engine of three plugins with default transform_stream returned the
\* base stream.
C29_WitnessDefaults ==
    /\ StreamDriven
    /\ Len(Engine) = 3
    /\ Wrapping(Engine) = <<>>
    /\ drv.out = BaseStream


\* What definitions() returned last, and the executor registered under a name.
Definitions == registry.defs.val
Registered(name) == registry.tools[name].ptr
IsFunctionTool(name) == Registered(name).impl = "FunctionTool"
BasicDefinition(name) == Tool(name, <<"Tool: ", name>>, JsonValue("object", <<>>))

\* C30: ToolRegistry::definitions returns one definition per registered tool:
\* for each tool that is a FunctionTool, that tool's own definition (the name,
\* description and parameters given to FunctionTool::new), and a basic
\* definition (description "Tool: <name>", empty parameters) only for the
\* other executors.
C30_FunctionToolDefinitions ==
    (registry.pc = "on" /\ registry.defs.some) =>
        /\ Len(Definitions) = Cardinality(DOMAIN registry.tools)
        /\ \A name \in DOMAIN registry.tools :
               IF IsFunctionTool(name)
               THEN \E i \in DOMAIN Definitions :
                        Definitions[i] = Tool(Registered(name).name,
                                              Registered(name).description,
                                              Registered(name).parameters)
               ELSE \E i \in DOMAIN Definitions :
                        Definitions[i] = BasicDefinition(name)
        /\ \A i \in DOMAIN Definitions : \A name \in DOMAIN registry.tools :
               Definitions[i] = BasicDefinition(name) => ~IsFunctionTool(name)

\* C30, as the code behaves: definitions returns the basic definition of
\* every entry of the map, a FunctionTool's included, under the name it was
\* registered with: the cast is applied to the Arc, which is never a
\* FunctionTool.
C30_BasicDefinitionsOnly ==
    (registry.pc = "on" /\ registry.defs.some) =>
        /\ Len(Definitions) = Cardinality(DOMAIN registry.tools)
        /\ \A name \in DOMAIN registry.tools :
               \E i \in DOMAIN Definitions : Definitions[i] = BasicDefinition(name)
        /\ \A i \in DOMAIN Definitions :
               \E name \in DOMAIN registry.tools :
                   Definitions[i] = BasicDefinition(name)

\* definitions() has returned for a registry that holds the FunctionTool
\* "add" under its own name.
C30_Witness ==
    /\ registry.pc = "on"
    /\ registry.defs.some
    /\ DOMAIN registry.tools = {"add"}
    /\ IsFunctionTool("add")
    /\ Registered("add").name = "add"
    /\ Definitions = <<BasicDefinition("add")>>

\* The register calls made on the registry, the names they gave, and the
\* place of the last call that gave a name.
Registers == calls
RegisteredNames == { Registers[i].name : i \in DOMAIN Registers }
LastRegister(name) ==
    CHOOSE i \in DOMAIN Registers :
        /\ Registers[i].name = name
        /\ \A j \in DOMAIN Registers : Registers[j].name = name => j <= i

C31_WitnessTest ==
    /\ registry.pc = "on"
    /\ registry.defs.some
    /\ Len(Registers) = 1
    /\ Registers[1].name = "add"
    /\ Registers[1].tool.ptr.impl = "FunctionTool"
    /\ Definitions = <<BasicDefinition("add")>>

\* The first-match chain a driver call ran: the hook's field and name, the
\* plugins that answer (Some or an error), and the first of them.
FirstMatchCall == drv.op \in {"resolve_model", "load_template"}
ChainField == IF drv.op = "resolve_model" THEN "rm" ELSE "lt"
Answering == { i \in 1..Len(Engine) : Engine[i][ChainField] # "None" }
FirstAnswer == CHOOSE i \in Answering : \A j \in Answering : i <= j
ChainDefault == IF drv.op = "resolve_model" THEN Ok(drv.arg) ELSE Ok(None)
ChainSome(p) ==
    IF drv.op = "resolve_model" THEN Ok(p.rm) ELSE Ok(Some(p.lt))
Invoked == { drv.visited[i].plugin : i \in 1..Len(drv.visited) }

\* C32: in resolve_model and load_template no plugin after the first one that
\* returns Some is invoked, so an error of a later plugin does not surface
\* and the first Some is the answer; an error of a plugin before any Some
\* ends the chain there: that error is returned as it is, no later plugin is
\* invoked, and neither the default nor a later Some is returned.
C32_FirstMatchShortCircuit ==
    FirstMatchCall =>
        IF Answering = {}
        THEN /\ drv.out = ChainDefault
             /\ VisitedNames(drv.visited) = Names(Engine)
        ELSE LET p == Engine[FirstAnswer]
             IN  /\ VisitedNames(drv.visited) = Names(SubSeq(Engine, 1, FirstAnswer))
                 /\ \A i \in FirstAnswer + 1 .. Len(Engine) :
                        Engine[i].name \notin Invoked
                 /\ p[ChainField] # "Err" => drv.out = ChainSome(p)
                 /\ p[ChainField] = "Err" =>
                        /\ drv.out = Err(PluginError(p, drv.op))
                        /\ drv.out # ChainDefault

\* load_template on an engine whose first plugin returns Some and whose
\* second fails: the template of the first is returned and the second was
\* not invoked.
C32_Witness ==
    /\ drv.op = "load_template"
    /\ Len(Engine) = 3
    /\ Engine[1].lt = "t1" /\ Engine[2].lt = "Err" /\ Engine[3].lt = "t2"
    /\ drv.out = Ok(Some("t1"))
    /\ Len(drv.visited) = 1

\* resolve_model on an engine whose first plugin returns None, whose second
\* fails and whose third returns Some: the error of the second is returned.
C32_WitnessError ==
    /\ drv.op = "resolve_model"
    /\ Len(Engine) = 3
    /\ Engine[1].rm = "None" /\ Engine[2].rm = "Err" /\ Engine[3].rm = "m2"
    /\ ~drv.out.ok
    /\ drv.out.err = PluginError(Engine[2], "resolve_model")
    /\ Len(drv.visited) = 2

\* What the log of the running generate_text call shows: the on_error driver
\* was called or one of its hooks ran; a hook of another stage failed; the
\* connector answered with an error.
OnErrorFired == LogOf("on_error") # <<>>
RequestEndFired == LogOf("on_request_end") # <<>>
HookFailed ==
    \E i \in DOMAIN log : ~log[i].ok /\ log[i].stage # "on_error"
ConnectorFailed == call.conn.some /\ ~call.conn.val.ok

\* C33: in generate_text the on_error hooks are fired only after the
\* connector's chat_completion returned an error: not in a call that returns
\* Ok, not when a hook of resolve_model, transform_params, on_request_start,
\* transform_result or on_request_end failed, not when the response has no
\* choices; and a call in which on_error was fired never fires
\* on_request_end.
C33_OnErrorOnlyForConnector ==
    TextCall =>
        /\ OnErrorFired => ConnectorFailed
        /\ (ret.returned /\ ret.res.ok) => ~OnErrorFired
        /\ HookFailed => ~OnErrorFired
        /\ ZeroChoices => ~OnErrorFired
        /\ OnErrorFired => ~RequestEndFired
        /\ (pc = "done" /\ ConnectorFailed) => OnErrorFired

\* A call whose connector answered without choices has ended with the
\* Provider error, on an engine of three plugins, and no on_error hook ran.
C33_Witness ==
    /\ TextCall
    /\ ZeroChoices
    /\ pc = "done"
    /\ Len(Engine) = 3
    /\ ret.res = Err(NoChoicesError)
    /\ ~OnErrorFired

\* A call whose connector failed has ended after the on_error hooks of three
\* plugins ran.
C33_WitnessConnectorFails ==
    /\ TextCall
    /\ ConnectorFailed
    /\ pc = "done"
    /\ Len(LogOf("on_error")) = 4
    /\ ~RequestEndFired

\* A call has ended with the error of an on_request_end hook, after the
\* connector answered: no on_error hook ran.
C33_WitnessEndFails ==
    /\ TextCall
    /\ pc = "done"
    /\ \E i \in DOMAIN log : log[i].stage = "on_request_end" /\ ~log[i].ok
    /\ ~OnErrorFired

\* The on_error batch of generate_text, and a call that ended after its
\* connector failed.
ErrorBatch == [stage |-> "on_error", hook |-> "oe", join |-> "join_error"]
ErrorCallOver == TextCall /\ ConnectorFailed /\ pc = "done"
ErrorHooksDone == Completed(ErrorBatch)

\* C34, as claimed: when the connector fails, every registered plugin's
\* on_error hook completes before generate_text returns the connector error,
\* whether or not another plugin's on_error hook fails.
C34_AllErrorHooksComplete ==
    ErrorCallOver =>
        /\ ret.res = Err(call.conn.val.err)
        /\ Abandoned(ErrorBatch) = {}

\* C34, as the code behaves: the on_error hooks run as one fail-fast batch.
\* While the batch is joined no hook has been observed to fail.  The call
\* returns the connector error in every case.  When no on_error hook fails,
\* every plugin's hook has completed by then.  When one fails the batch ends
\* with that failure: it is the only failure observed and the last hook to
\* complete, and hooks are left uncompleted only in that case.
C34_ErrorHooksFailFast ==
    /\ (TextCall /\ pc = "join_error") =>
           \A i \in DOMAIN batch :
               /\ batch[i] \in {"pending", "ok"}
               /\ batch[i] = "ok" => Engine[i].oe = "Ok"
    /\ ErrorCallOver =>
           LET done == ErrorHooksDone
           IN  /\ ret.res = Err(call.conn.val.err)
               /\ \A k \in 1..(Len(done) - 1) : done[k].ok
               /\ Failing("oe") = {} =>
                      /\ Abandoned(ErrorBatch) = {}
                      /\ \A k \in DOMAIN done : done[k].ok
               /\ Failing("oe") # {} =>
                      /\ done # <<>>
                      /\ ~done[Len(done)].ok
                      /\ \E i \in Failing("oe") :
                             Engine[i].name = done[Len(done)].plugin
               /\ Cardinality(Abandoned(ErrorBatch)) = Len(Engine) - Len(done)

\* The connector failed on an engine of three plugins; the on_error hook of
\* the third failed before the hooks of the other two, which do not fail,
\* had completed, and the call returned the connector error.
C34_Witness ==
    /\ ErrorCallOver
    /\ Len(Engine) = 3
    /\ Failing("oe") = {3}
    /\ Abandoned(ErrorBatch) = {1, 2}
    /\ Len(ErrorHooksDone) = 1
    /\ ret.res = Err(call.conn.val.err)

\* The contexts the drivers and hooks of the running call were given, the
\* request the connector was sent, and what the chains of the executor's
\* engine make of the caller's model and params.
ContextsPassed ==
    { log[i].ctx : i \in { j \in DOMAIN log : "ctx" \in DOMAIN log[j] } }
HooksRun == { i \in DOMAIN log : log[i].plugin # 0 }
Sent == call.chat_req.val
ResolvedModel == PluginEngine_resolve_model(Engine, call.model).out.val
TransformedParams == PluginEngine_transform_params(Engine, call.params).out.val

\* C35: in generate_text every hook is given one and the same RequestContext,
\* which carries the model name the caller asked for (not the resolved one),
\* the backend id of the executor's connector and one request id; the
\* request sent to the connector carries the model the resolve_model chain
\* returned, the messages, sampling fields, stop, tools and extras of the
\* params the transform_params chain returned, response_format Text and
\* stream false.
C35_ContextAndRequest ==
    TextCall =>
        /\ call.ctx.model = call.model
        /\ call.ctx.provider_id = Provider_info(executor.provider).id
        /\ ContextsPassed \subseteq {call.ctx}
        /\ \A i \in HooksRun :
               /\ log[i].ctx.model = call.model
               /\ log[i].ctx.provider_id = executor.provider.info.id
               /\ log[i].ctx.request_id = call.ctx.request_id
        /\ call.chat_req.some =>
               /\ Sent.model = ResolvedModel
               /\ Sent.messages = TransformedParams.messages
               /\ Sent.temperature = TransformedParams.temperature
               /\ Sent.max_tokens = TransformedParams.max_tokens
               /\ Sent.top_p = TransformedParams.top_p
               /\ Sent.frequency_penalty = TransformedParams.frequency_penalty
               /\ Sent.presence_penalty = TransformedParams.presence_penalty
               /\ Sent.stop = TransformedParams.stop
               /\ Sent.tools = TransformedParams.tools
               /\ Sent.extra = TransformedParams.extra
               /\ Sent.response_format = Some("Text")
               /\ Sent.stream = Some(FALSE)

\* A call for model "m0" with tools, on an "anthropic" connector and a plugin
\* that resolves to "m1" and appends a message, has ended: its hooks were
\* given a context for "m0" and the connector a request for "m1".
C35_Witness ==
    /\ TextCall
    /\ pc = "done"
    /\ executor.provider.info.id = "anthropic"
    /\ call.model = "m0"
    /\ call.params.tools.some
    /\ Cardinality(HooksRun) >= 5
    /\ call.chat_req.some
    /\ Sent.model = "m1"
    /\ Sent.messages = <<7, 8, 1>>
    /\ Sent.tools = call.params.tools
    /\ call.ctx.model = "m0"
    /\ call.ctx.provider_id = "anthropic"

\* An outer call of the RetryProvider has returned an error, and the
\* attempts it made.
RetryFailed == RetryActive /\ retry.pc = "done" /\ ~retry.ret.res.ok
AttemptsMade == Len(retry.results)

\* C36: the error a RetryProvider call returns is the error of the last
\* attempt it made: every earlier attempt failed with a retryable error,
\* which is dropped, and the last attempt either failed with an error that
\* is not retryable (the first such error met) or was attempt number
\* max_retries (the (max_retries + 1)-th inner call) and failed with a
\* retryable error.
C36_LastErrorReturned ==
    RetryFailed =>
        /\ retry.ret.res = retry.results[AttemptsMade]
        /\ \A i \in 1..(AttemptsMade - 1) : IsRetryableErr(retry.results[i])
        /\ \/ IsTerminalErr(retry.results[AttemptsMade])
           \/ /\ IsRetryableErr(retry.results[AttemptsMade])
              /\ AttemptsMade = retry.config.max_retries + 1
              /\ retry.attempt = retry.config.max_retries

\* With max_retries = 2 the attempts failed with Timeout, Network and
\* RateLimit, and the call returned the RateLimit error.
C36_Witness ==
    /\ RetryFailed
    /\ retry.config.max_retries = 2
    /\ AttemptsMade = 3
    /\ retry.results[1].err.kind = "Timeout"
    /\ retry.results[2].err.kind = "Network"
    /\ retry.results[3].err.kind = "RateLimit"
    /\ retry.ret.res.err.kind = "RateLimit"

\* A Timeout was followed by an Authentication error, which was returned
\* with two retries left.
C36_WitnessTerminal ==
    /\ RetryFailed
    /\ retry.config.max_retries = 3
    /\ AttemptsMade = 2
    /\ retry.results[1].err.kind = "Timeout"
    /\ retry.ret.res.err.kind = "Authentication"

\* The RetryProviders of the executor's connector chain, by layer number,
\* and the calls a layer made of its inner provider: its attempts.
RetryLayers ==
    { n \in 1..Len(LayersOf(executor.provider)) :
          LayersOf(executor.provider)[n].kind = "Retry" }
AttemptsOf(n) == { j \in 1..Len(stack.trace) : IsInnerCallOf(j, n) }
EntriesOf(n) ==
    { i \in TraceOf("enter") : stack.trace[i].layer = n }

\* C37: every attempt of a RetryProvider, the first and each retry, passes
\* its inner provider a request equal to the request the RetryProvider was
\* given, which is the original request of the call, whatever the inner
\* provider did with the request of an earlier attempt; for chat_completion
\* and for stream_chat_completion.
C37_AttemptsGetOriginalRequest ==
    (executor.built /\ StackActive) =>
        \A n \in RetryLayers :
            /\ \A i \in EntriesOf(n) : stack.trace[i].data = stack.req
            /\ \A j \in AttemptsOf(n) : ReqOf(j) = stack.req

\* A stream_chat_completion call with tools through a RetryProvider took
\* three attempts, each with the original request.
C37_Witness ==
    /\ executor.built
    /\ StackActive
    /\ stack.op = "stream_chat_completion"
    /\ stack.req.tools.some
    /\ LayerKindsAttached = <<"Retry">>
    /\ Cardinality(AttemptsOf(1)) = 3
    /\ \A j \in AttemptsOf(1) : ReqOf(j) = stack.req
    /\ stack.arg # stack.req

\* A chat_completion call through a RetryProvider around a LoggingProvider
\* took two attempts.
C37_WitnessChat ==
    /\ executor.built
    /\ StackActive
    /\ stack.op = "chat_completion"
    /\ LayerKindsAttached = <<"Logging", "Retry">>
    /\ Cardinality(AttemptsOf(2)) = 2
    /\ stack.ret.returned

\* The running outer call is of a RetryProvider set directly around the
\* OpenAiProvider.
AroundOpenAi == RetryActive /\ InnerProvider = "OpenAiProvider"
ClientFailed(i) == retry.raw[i].built = "built" /\ ~retry.raw[i].client.ok

\* C38: every failure of OpenAiProvider::chat_completion and of the opening
\* of stream_chat_completion is of kind Provider, whatever failed: a builder,
\* the transport or the API.  A RetryProvider directly around it therefore
\* never sleeps and never calls it again: each outer call makes exactly one
\* inner call and returns its result.
C38_OpenAiNeverRetried ==
    AroundOpenAi =>
        /\ \A i \in DOMAIN retry.results :
               /\ ~retry.results[i].ok => retry.results[i].err.kind = "Provider"
               /\ ~retry.results[i].ok <=>
                      (retry.raw[i].built # "built" \/ ~retry.raw[i].client.ok)
        /\ retry.sleeps = <<>>
        /\ retry.pc # "sleeping"
        /\ retry.attempt = 0
        /\ Len(retry.results) <= 1
        /\ retry.pc \in {"match", "done"} => Len(retry.results) = 1
        /\ retry.pc = "done" => retry.ret.res = retry.results[1]

\* A chat_completion call with three retries allowed has returned after one
\* inner call that the API refused (a rate limit is an ApiError).
C38_Witness ==
    /\ AroundOpenAi
    /\ retry.pc = "done"
    /\ retry.op = "chat_completion"
    /\ retry.config.max_retries = 3
    /\ ClientFailed(1)
    /\ retry.raw[1].client.err = "ApiError"
    /\ retry.ret.res = Err(AiError_provider("OpenAI API error"))
    /\ retry.sleeps = <<>>

\* A stream_chat_completion call has returned after one inner call whose
\* transport failed.
C38_WitnessStream ==
    /\ AroundOpenAi
    /\ retry.pc = "done"
    /\ retry.op = "stream_chat_completion"
    /\ retry.config.max_retries = 3
    /\ ClientFailed(1)
    /\ retry.raw[1].client.err = "Reqwest"
    /\ ~retry.ret.res.ok
    /\ Len(retry.results) = 1

(***************************************************************************)
(* C39  The delay formula for integer factors                              *)
(***************************************************************************)
\* The backoff factor of the configuration is a whole number, at least 1.
IntegerFactor(config) ==
    config.backoff_multiplier >= 10 /\ config.backoff_multiplier % 10 = 0
Factor(config) == config.backoff_multiplier \div 10
DelayComputed == delay.pc = "done" /\ IntegerFactor(delay.config)
WholeMillis(d) == Duration_from_millis(Duration_as_millis(d)) = d

\* C39: for every configuration with an integer backoff factor >= 1 and
\* every attempt number, calculate_delay(attempt) is at most max_delay,
\* equals min(initial_delay * factor^attempt, max_delay) and is not below the
\* delay of the attempt before; at attempt 0 it is min(initial_delay,
\* max_delay).
C39_DelayFormula ==
    DelayComputed =>
        /\ delay.out.val <= delay.config.max_delay
        /\ delay.out.val =
               Min(delay.config.initial_delay
                       * Pow(Factor(delay.config), delay.attempt),
                   delay.config.max_delay)
        /\ delay.attempt > 0 =>
               calculate_delay(delay.config, delay.attempt - 1) <= delay.out.val
        /\ delay.attempt = 0 =>
               delay.out.val = Min(delay.config.initial_delay,
                                   delay.config.max_delay)

\* C39, as the code has it: the delay is at most max_delay and never below
\* the delay of the attempt before; it is the formula's value where the
\* initial delay is a whole number of milliseconds, and otherwise the
\* formula's value for the initial delay cut down to whole milliseconds.
C39_DelayFormulaInWholeMillis ==
    DelayComputed =>
        /\ delay.out.val <= delay.config.max_delay
        /\ delay.out.val =
               Min(Duration_from_millis(Duration_as_millis(delay.config.initial_delay))
                       * Pow(Factor(delay.config), delay.attempt),
                   delay.config.max_delay)
        /\ WholeMillis(delay.config.initial_delay) =>
               delay.out.val =
                   Min(delay.config.initial_delay
                           * Pow(Factor(delay.config), delay.attempt),
                       delay.config.max_delay)
        /\ delay.attempt > 0 =>
               calculate_delay(delay.config, delay.attempt - 1) <= delay.out.val

\* An initial delay of 1.5 ms has given a first delay of 1 ms.
C39_Witness ==
    /\ DelayComputed
    /\ delay.attempt = 0
    /\ delay.config.initial_delay = Duration_from_micros(1500)
    /\ delay.config.max_delay = Duration_from_millis(10)
    /\ delay.out.val = Duration_from_millis(1)

\* Factor 1 with an initial delay above the cap: the first delay is the cap.
C39_WitnessCapped ==
    /\ DelayComputed
    /\ delay.attempt = 0
    /\ Factor(delay.config) = 1
    /\ delay.config.initial_delay > delay.config.max_delay
    /\ delay.out.val = delay.config.max_delay

(***************************************************************************)
(* C40  ToolUsePlugin                                                      *)
(***************************************************************************)
HookCalled(hook) == registry.pc = "plugin" /\ call.hook = hook /\ ret.returned
PluginTools == registry.plugin.registry
FieldsButTools == DOMAIN TextParams(<<>>, None, None) \ {"tools"}

C40_WitnessEmpty ==
    /\ HookCalled("transform_params")
    /\ DOMAIN PluginTools = {}
    /\ call.input.tools.some
    /\ ret.res.val = call.input

\* A result finished for ToolCalls, with a tool call, passed a plugin with
\* auto_execute on.
C40_WitnessToolCalls ==
    /\ HookCalled("transform_result")
    /\ registry.plugin.config.auto_execute
    /\ call.input.finish_reason = "ToolCalls"
    /\ call.input.tool_calls.some
    /\ call.input.tool_calls.val # <<>>
    /\ ret.res.val = call.input

====
